---- MODULE Spec2Model ----
(***************************************************************************)
(* Verification model of the VISION signal pipeline (notfalab/VISION):      *)
(* signal engine, outcome tracker, loss-learning analyzer, signal store     *)
(* and the scan task that ties them together.                               *)
(*                                                                          *)
(* Number representation (the source computes in binary floating point):    *)
(*   prices, ATR, excursions, PnL : integer multiples of 0.0001             *)
(*   composite_score              : tenths of a point                       *)
(*   confidence                   : millionths                              *)
(*   ML confidence, min_confidence: hundredths                              *)
(*   RSI / StochRSI values        : tenths of a point                       *)
(*   indicator weights            : multiples of 0.025                      *)
(*   SL/TP multipliers            : tenths                                  *)
(*   risk_reward_ratio            : hundredths                              *)
(*   clock                        : minutes                                 *)
(* round(x, n) is modelled as round-half-to-even on the exact value.        *)
(***************************************************************************)
EXTENDS Integers, Sequences, FiniteSets, TLC

VARIABLES
    signals,      \* return value of the last generate_signals call
    baseline,     \* return value of the same call without the extra loss pattern
    scanInput,    \* symbol, timeframe and extra loss pattern of that call
    scanLog,      \* the logger event generate_signals ended with
    sig,          \* the signal followed by the outcome tracker
    now,          \* datetime.now(timezone.utc), in minutes
    lastCheck,    \* what the last check_signal_outcome call saw and returned
    store,        \* Redis list vision:scalper:signals:<symbol>
    idCounter,    \* Redis key vision:scalper:id_counter
    dbBar,        \* latest candle of the symbol in the candle store
    scanPc,       \* position of each overlapping scan
    scanBar,      \* the latest bar each scan loaded into its dataframes
    scanOpen,     \* the open signals each scan read from the store
    history,      \* signal list handed to the loss-learning analyzer
    patterns,     \* return value of the last get_active_loss_filters call
    adapters,     \* DataSourceRegistry._adapters, in insertion order
    routes,       \* DataSourceRegistry._symbol_routes
    routeLog,     \* outcome of the last route_symbol call
    candles,      \* rows of the table ohlcv_data
    ingestLog,    \* outcome of the last ingest_ohlcv call
    lists,        \* the Redis lists of signal_store.py, by symbol
    savePc,       \* where each process is in save_signal, and with which signal
    assigned,     \* the ids returned by INCR, in the order of the calls
    apiStore,     \* api/v1/scalper.py _signal_store, the list of the API process
    apiLog,       \* response of the last GET /scalper/{symbol}/signals
    loopPc,       \* where the scanner loop is, or how it ended
    scan_count,   \* cycles whose scans are done
    last_summary_date, \* UTC date of the last completed summary pass
    utcNow,       \* the UTC clock, date and hour
    cycleLog,     \* scans of the current cycle, and how many failed
    emitted,      \* daily summaries sent, by date and symbol
    macroPc,      \* where each caller of get_gold_macro_summary is
    memCache,     \* the in-memory gold_summary entry and its age
    fileCache,    \* the on-disk macro cache file and its age
    _refreshing,  \* the flag of MacroAdapter
    bgTasks,      \* the background refresh tasks created and not yet finished
    macroLog,     \* how the last call of get_gold_macro_summary was answered
    lossSignal,   \* the losing signal handed to categorize_loss
    lossAnalysis, \* the dict categorize_loss returned for it
    scoreInput,   \* the indicator results handed to the scoring loop
    scoreLog,     \* the sums of the scoring loop
    mtfInput,     \* the frames handed to scan_multi_timeframe with what generate_signals returns for each
    mtfLog,       \* the list scan_multi_timeframe returned
    fetchInput,   \* the registry, the request and what every source answers
    fetchLog,     \* what the call of _fetch_with_fallback or of ingest_ohlcv did
    pendPc,       \* where the running scan of the symbol stands
    ohlcv_rows,   \* the number of candles stored per timeframe, counted up to 50
    pendStore,    \* the signals of the symbol in the Redis list
    pendNow       \* the clock in minutes

engineVars  == <<signals, baseline, scanInput, scanLog>>
trackerVars == <<sig, now, lastCheck>>
raceVars    == <<store, idCounter, dbBar, scanPc, scanBar, scanOpen>>
lossVars    == <<history, patterns>>
dataVars == <<adapters, routes, routeLog, candles, ingestLog>>
saveVars == <<lists, savePc, assigned, apiStore, apiLog>>
loopVars == <<loopPc, scan_count, last_summary_date, utcNow, cycleLog, emitted>>
macroVars == <<macroPc, memCache, fileCache, _refreshing, bgTasks, macroLog>>
catVars == <<lossSignal, lossAnalysis>>
scoreVars == <<scoreInput, scoreLog>>
mtfVars == <<mtfInput, mtfLog>>
fetchVars == <<fetchInput, fetchLog>>
pendVars == <<pendPc, ohlcv_rows, pendStore, pendNow>>
moreVars == <<dataVars, saveVars, loopVars, macroVars, catVars, scoreVars, mtfVars, fetchVars, pendVars>>
vars == <<signals, baseline, scanInput, scanLog, sig, now, lastCheck,
          store, idCounter, dbBar, scanPc, scanBar, scanOpen, history, patterns,
          adapters, routes, routeLog, candles, ingestLog,
          lists, savePc, assigned, apiStore, apiLog,
          loopPc, scan_count, last_summary_date, utcNow, cycleLog, emitted,
          macroPc, memCache, fileCache, _refreshing, bgTasks, macroLog,
          lossSignal, lossAnalysis,
          scoreInput, scoreLog,
          mtfInput, mtfLog,
          fetchInput, fetchLog,
          pendPc, ohlcv_rows, pendStore, pendNow>>

None == "None"

------------------------------------------------------------------------------
(* Arithmetic helpers *)

Abs(x) == IF x < 0 THEN -x ELSE x
Max(a, b) == IF a >= b THEN a ELSE b
Min(a, b) == IF a <= b THEN a ELSE b

\* round(n / d) to the nearest integer, ties to even (d > 0)
RoundHalfEven(n, d) ==
    LET q == n \div d
        r == n % d
    IN  IF 2 * r < d THEN q
        ELSE IF 2 * r > d THEN q + 1
        ELSE IF q % 2 = 0 THEN q ELSE q + 1

\* round(x, 2) of a price given in units of 0.0001
Round2(x) == 100 * RoundHalfEven(x, 100)

\* x * 10^k / e rounded half-even, by long division (e > 0, 0 <= x)
RECURSIVE ScaledDiv(_, _, _, _)
ScaledDiv(q, r, e, k) ==
    IF k = 0
    THEN IF 2 * r < e THEN q
         ELSE IF 2 * r > e THEN q + 1
         ELSE IF q % 2 = 0 THEN q ELSE q + 1
    ELSE ScaledDiv(10 * q + ((10 * r) \div e), (10 * r) % e, e, k - 1)

------------------------------------------------------------------------------
(* Signal dicts *)

\* signal.get(key, default)
Get(signal, key, default) == IF key \in DOMAIN signal THEN signal[key] ELSE default

\* {**signal, **update} and dict.update(update)
Merge(signal, update) == update @@ signal

EmptyDict == [k \in {} |-> 0]

\* F(v) with v evaluated once, before F is applied
Let(v, F(_)) == CHOOSE r \in {F(x) : x \in {v}} : TRUE

\* one optional dict entry
Entry(cond, key, value) == IF cond THEN key :> value ELSE EmptyDict

------------------------------------------------------------------------------
(* signal_engine.py: tables *)

SCALPER_WEIGHTS ==
    [moving_averages |-> 80, macd |-> 80, rsi |-> 60, stochastic_rsi |-> 60,
     bollinger_bands |-> 40, atr |-> 20, volume_spike |-> 80, obv |-> 40,
     ad_line |-> 30, smart_money |-> 100, key_levels |-> 80,
     session_analysis |-> 30, candle_patterns |-> 60]

\* order in which the indicator modules register themselves
IndicatorOrder ==
    <<"volume_spike", "obv", "ad_line", "rsi", "macd", "bollinger_bands",
      "moving_averages", "atr", "stochastic_rsi", "smart_money", "key_levels",
      "session_analysis", "candle_patterns">>

CRYPTO_SYMBOLS == {"BTCUSD", "ETHUSD", "SOLUSD", "XRPUSD", "ETHBTC"}
FOREX_SYMBOLS  == {"EURUSD", "GBPUSD", "USDJPY", "AUDUSD", "USDCAD", "NZDUSD",
                   "USDCHF", "EURGBP", "EURJPY", "GBPJPY"}

Row(s, c, n) == [min_score |-> s, min_confidence |-> c, min_confluence |-> n]

THRESHOLDS(tf) ==
    CASE tf = "5m"  -> Row(68, 68, 7)
      [] tf = "15m" -> Row(65, 65, 6)
      [] tf = "1h"  -> Row(62, 60, 5)
      [] tf = "1d"  -> Row(55, 50, 4)
      [] tf = "1w"  -> Row(55, 45, 3)
      [] OTHER      -> Row(65, 65, 6)

CRYPTO_THRESHOLDS(tf) ==
    CASE tf = "5m"  -> Row(72, 70, 7)
      [] tf = "1h"  -> Row(65, 62, 6)
      [] tf = "1d"  -> Row(58, 55, 5)
      [] OTHER      -> Row(70, 68, 6)

FOREX_THRESHOLDS(tf) ==
    CASE tf = "5m"  -> Row(68, 68, 7)
      [] tf = "15m" -> Row(65, 65, 6)
      [] tf = "1h"  -> Row(62, 60, 5)
      [] tf = "1d"  -> Row(55, 50, 4)
      [] OTHER      -> Row(65, 65, 6)

_get_thresholds(timeframe, symbol) ==
    IF symbol \in CRYPTO_SYMBOLS THEN CRYPTO_THRESHOLDS(timeframe)
    ELSE IF symbol \in FOREX_SYMBOLS THEN FOREX_THRESHOLDS(timeframe)
    ELSE THRESHOLDS(timeframe)

ATR_MULT_BY_TF(tf) ==
    CASE tf = "1m"  -> <<20, 30>>
      [] tf = "5m"  -> <<25, 40>>
      [] tf = "15m" -> <<20, 35>>
      [] tf = "30m" -> <<18, 30>>
      [] tf \in {"1h", "4h", "1d"} -> <<15, 25>>
      [] OTHER      -> <<15, 25>>

CRYPTO_ATR_MULT_BY_TF(tf) ==
    CASE tf = "1m"  -> <<25, 40>>
      [] tf = "5m"  -> <<30, 50>>
      [] tf = "15m" -> <<25, 40>>
      [] tf = "30m" -> <<20, 35>>
      [] tf = "1h"  -> <<20, 30>>
      [] tf = "4h"  -> <<18, 30>>
      [] tf = "1d"  -> <<15, 25>>
      [] OTHER      -> <<20, 30>>

_get_atr_multipliers(symbol, timeframe) ==
    IF symbol \in CRYPTO_SYMBOLS THEN CRYPTO_ATR_MULT_BY_TF(timeframe)
    ELSE ATR_MULT_BY_TF(timeframe)

expiry_map(tf) ==
    CASE tf = "1m"  -> 15
      [] tf = "5m"  -> 60
      [] tf = "15m" -> 180
      [] tf = "30m" -> 360
      [] tf = "1h"  -> 600
      [] tf = "4h"  -> 1440
      [] tf = "1d"  -> 2880
      [] OTHER      -> 120

------------------------------------------------------------------------------
(* signal_engine.py: _classify_signal.  The source tests `keyword in label`; *)
(* KeywordsIn gives, for every label the indicators emit, the keywords of    *)
(* the catalogs that are substrings of it.                                   *)

KeywordsIn(label) ==
    CASE label \in {"bullish_momentum", "bullish_weakening", "bullish_structure",
                    "bullish_ema_crossover", "bullish_reversal",
                    "bullish_divergence", "bullish_crossover"} -> {"bullish"}
      [] label \in {"bearish_momentum", "bearish_weakening", "bearish_structure",
                    "bearish_ema_crossover", "bearish_reversal",
                    "bearish_divergence", "bearish_crossover"} -> {"bearish"}
      [] label = "bullish_continuation" -> {"bullish", "bullish_continuation"}
      [] label = "bearish_continuation" -> {"bearish", "bearish_continuation"}
      [] label \in {"strong_bullish_reversal", "strong_bullish_sessions"}
                                        -> {"bullish", "strong_bullish"}
      [] label \in {"strong_bearish_reversal", "strong_bearish_sessions"}
                                        -> {"bearish", "strong_bearish"}
      [] label = "bullish_room"         -> {"bullish", "bullish_room"}
      [] label = "bearish_room"         -> {"bearish", "bearish_room"}
      [] label \in {"uptrend", "strong_uptrend"}     -> {"uptrend"}
      [] label \in {"downtrend", "strong_downtrend"} -> {"downtrend"}
      [] label = "golden_cross"         -> {"golden", "golden_cross"}
      [] label = "death_cross"          -> {"death", "death_cross"}
      [] label = "low_volatility"       -> {"low"}
      [] label \in {"accumulation", "distribution", "oversold", "overbought",
                    "at_support", "at_resistance", "none"} -> {label}
      [] OTHER -> {}

bullish_keywords ==
    {"bullish", "uptrend", "accumulation", "oversold", "at_support",
     "bullish_room", "bullish_continuation", "strong_bullish", "golden_cross"}
bearish_keywords ==
    {"bearish", "downtrend", "distribution", "overbought", "at_resistance",
     "bearish_room", "bearish_continuation", "strong_bearish", "death_cross"}

\* metadata is [classification, divergence, crossover]; "" is an absent key
_classify_signal(metadata) ==
    LET cls == metadata.classification
        divergence == metadata.divergence
        crossover == metadata.crossover
    IN  IF "bullish" \in KeywordsIn(divergence) THEN "bullish"
        ELSE IF "bearish" \in KeywordsIn(divergence) THEN "bearish"
        ELSE IF crossover # "" /\ KeywordsIn(crossover) \cap {"bullish", "golden"} # {}
             THEN "bullish"
        ELSE IF crossover # "" /\ KeywordsIn(crossover) \cap {"bearish", "death"} # {}
             THEN "bearish"
        ELSE IF KeywordsIn(cls) \cap bullish_keywords # {} THEN "bullish"
        ELSE IF KeywordsIn(cls) \cap bearish_keywords # {} THEN "bearish"
        ELSE "neutral"

------------------------------------------------------------------------------
(* signal_engine.py: generate_signals *)

\* raw[name] is the latest IndicatorResult of an indicator:
\*   [present, value, metadata]; present = FALSE is an empty results list
Weight(name) == IF name \in DOMAIN SCALPER_WEIGHTS THEN SCALPER_WEIGHTS[name] ELSE 40

\* weight of one indicator after the divergence boost (weight *= 1.3)
BoostedWeight(name, meta) ==
    IF meta.divergence # "" /\ "none" \notin KeywordsIn(meta.divergence)
    THEN (Weight(name) * 13) \div 10
    ELSE Weight(name)

\* step 2: the scoring loop over raw.items(), first n indicators
RECURSIVE ScoreIndicators(_, _)
ScoreIndicators(raw, n) ==
    IF n = 0
    THEN [bullish_weight |-> 0, bearish_weight |-> 0, total_weight |-> 0,
          bullish_reasons |-> <<>>, bearish_reasons |-> <<>>]
    ELSE LET ind_name == IndicatorOrder[n]
             latest == raw[ind_name]
             weight == BoostedWeight(ind_name, latest.metadata)
             signal == _classify_signal(latest.metadata)
         IN  Let(ScoreIndicators(raw, n - 1),
                 LAMBDA acc :
                     IF ~latest.present THEN acc
                     ELSE [bullish_weight |->
                               acc.bullish_weight
                               + (IF signal = "bullish" THEN weight ELSE 0),
                           bearish_weight |->
                               acc.bearish_weight
                               + (IF signal = "bearish" THEN weight ELSE 0),
                           total_weight |-> acc.total_weight + weight,
                           bullish_reasons |->
                               IF signal = "bullish"
                               THEN Append(acc.bullish_reasons, ind_name)
                               ELSE acc.bullish_reasons,
                           bearish_reasons |->
                               IF signal = "bearish"
                               THEN Append(acc.bearish_reasons, ind_name)
                               ELSE acc.bearish_reasons])

\* indicator_snapshot.get(name, {}).get("value", default)
SnapshotValue(raw, name, default) ==
    IF raw[name].present THEN raw[name].value ELSE default

\* step 5: round(50 + net_score * 50, 1), in tenths
CompositeScore(sc) ==
    RoundHalfEven(500 * sc.total_weight
                  + 500 * (sc.bullish_weight - sc.bearish_weight), sc.total_weight)

\* step 6
Direction(composite_score, min_score) ==
    IF composite_score >= 10 * min_score THEN "long"
    ELSE IF composite_score <= 10 * (100 - min_score) THEN "short"
    ELSE None

\* step 7
MlAgrees(direction, ml_direction) ==
    \/ direction = "long" /\ ml_direction = "bullish"
    \/ direction = "short" /\ ml_direction = "bearish"
    \/ ml_direction = "neutral"

\* step 8
RegimeCompatible(direction, regime) ==
    ~ \/ direction = "long" /\ regime = "trending_down"
      \/ direction = "short" /\ regime = "trending_up"

\* step 9: base confidence = winning side / total, ML blend 0.7/0.3, x0.4 when the
\* regime is incompatible, x0.7 on low confluence, clamp to [0, 1], round(.., 3).
\* Result in millionths.
Confidence(sc, direction, ml_agrees, ml_confidence, regime_compatible, confluence_count, min_confluence) ==
    LET side == IF direction = "long" THEN sc.bullish_weight ELSE sc.bearish_weight
        blend == ml_agrees /\ ml_confidence > 50
        \* confidence = num / den before the penalties
        num == IF blend THEN 700 * side + 3 * ml_confidence * sc.total_weight
                        ELSE side
        den == IF blend THEN 1000 * sc.total_weight ELSE sc.total_weight
        k1 == IF regime_compatible THEN 10 ELSE 4
        k2 == IF confluence_count < min_confluence THEN 7 ELSE 10
        thousandths == RoundHalfEven(num * k1 * k2 * 10, den)
    IN  1000 * Min(Max(thousandths, 0), 1000)

\* step 10 with the thresholds 75 / 25 that categorize_loss uses
MutOverextensionBlock(direction, rsi_val) ==
    \/ direction = "long" /\ rsi_val > 750
    \/ direction = "short" /\ rsi_val < 250

\* step 10
OverextensionBlock(direction, rsi_val) ==
    \/ direction = "long" /\ rsi_val > 720
    \/ direction = "short" /\ rsi_val < 280

\* step 11 with the penalty inverted into a boost
MutPatternPenalty(confidence) == confidence * 2

\* step 11: confidence *= 0.5 for a pattern matching (regime, direction)
PatternPenalty(confidence) == confidence \div 2

\* step 12 with the confidence floor 0.20 too low
MutBelowMinConfidence(confidence, min_confidence) ==
    confidence < 10000 * (min_confidence - 20)

\* step 12: confidence (millionths) against min_confidence (hundredths)
BelowMinConfidence(confidence, min_confidence) == confidence < 10000 * min_confidence

\* step 11: the loop over loss_patterns, from pattern i on
RECURSIVE ApplyLossFilters(_, _, _, _, _, _, _)
ApplyLossFilters(loss_patterns, i, regime, direction, rsi_val, confidence, applied) ==
    IF i > Len(loss_patterns)
    THEN [blocked |-> FALSE, confidence |-> confidence, loss_filter_applied |-> applied]
    ELSE LET conditions == loss_patterns[i].conditions
             match == /\ Get(conditions, "regime", None) = regime
                      /\ Get(conditions, "direction", None) = direction
             conf == IF match THEN PatternPenalty(confidence) ELSE confidence
         IN  IF /\ Get(conditions, "category", None) = "overextended"
                /\ \/ direction = "long" /\ rsi_val > 650
                   \/ direction = "short" /\ rsi_val < 350
             THEN [blocked |-> TRUE, confidence |-> conf,
                   loss_filter_applied |-> applied \/ match]
             ELSE ApplyLossFilters(loss_patterns, i + 1, regime, direction, rsi_val,
                                   conf, applied \/ match)

\* step 13, inline fallback: sum of the true ranges tr[1:] of df.tail(14)
RECURSIVE TrueRangeSum(_, _)
TrueRangeSum(tail, i) ==
    IF i < 2 THEN 0
    ELSE TrueRangeSum(tail, i - 1)
         + Max(tail[i].high - tail[i].low,
               Max(Abs(tail[i].high - tail[i - 1].close),
                   Abs(tail[i].low - tail[i - 1].close)))

\* step 13: the ATR used for the levels, as the fraction n / d:
\* the snapshot value, else the mean of 13 true ranges, else 0.2 % of the close
AtrValue(raw, df) ==
    LET snap == SnapshotValue(raw, "atr", 0)
        trs == TrueRangeSum(df.tail, Len(df.tail))
    IN  IF snap > 0 THEN [n |-> snap, d |-> 1]
        ELSE IF Len(df.tail) >= 14 /\ trs > 0 THEN [n |-> trs, d |-> 13]
        ELSE [n |-> Abs(df.tail[Len(df.tail)].close), d |-> 500]

\* round(price + sign * mult * atr, 2); the price is split as 100 * Q + R so that
\* the exact numerator stays small
RoundLevel(price, sign, mult, atr) ==
    LET Q == price \div 100
        y == (price % 100) * 10 * atr.d + sign * mult * atr.n
        D == 1000 * atr.d
        b == Q + (y \div D)
        r == y % D
    IN  100 * (IF 2 * r < D THEN b
               ELSE IF 2 * r > D THEN b + 1
               ELSE IF b % 2 = 0 THEN b ELSE b + 1)

\* step 13: stop_loss, take_profit and risk_reward for a direction
Levels(direction, current_price, atr, mults) ==
    LET sgn == IF direction = "long" THEN 1 ELSE -1
        stop_loss == RoundLevel(current_price, -sgn, mults[1], atr)
        take_profit == RoundLevel(current_price, sgn, mults[2], atr)
        risk == Abs(current_price - stop_loss)
        reward == Abs(take_profit - current_price)
    IN  [entry_price |-> current_price, stop_loss |-> stop_loss,
         take_profit |-> take_profit,
         risk_reward |-> IF risk > 0 THEN RoundHalfEven(100 * reward, risk) ELSE 0]

\* step 2 and steps 3-4: the indicator_snapshot dict
IndicatorSnapshot(raw, ml, reg) ==
    LET names == {IndicatorOrder[i] : i \in 1..Len(IndicatorOrder)}
        present == {n \in names : raw[n].present}
        extra == (IF ml.failed THEN {} ELSE {"ml_prediction"})
                 \cup (IF reg.failed THEN {} ELSE {"regime"})
    IN  [k \in present \cup extra |->
            IF k = "ml_prediction"
            THEN [direction |-> ml.direction, confidence |-> ml.confidence]
            ELSE IF k = "regime"
            THEN [type |-> reg.regime, confidence |-> reg.confidence]
            ELSE [value |-> raw[k].value,
                  classification |-> IF raw[k].metadata.classification = ""
                                     THEN "neutral"
                                     ELSE raw[k].metadata.classification,
                  signal |-> _classify_signal(raw[k].metadata)]]

\* generate_signals(df, symbol, timeframe, loss_patterns).  raw, ml and reg are
\* what indicator_registry.calculate_all(df), predict(df, ..) and
\* detect_regime(df) returned for df; clock is datetime.now().
\* Returns the list of signals and the logger event the call ended with.
\* steps 3 to 14, given the scores sc of step 2
SignalsFromScores(df, symbol, timeframe, loss_patterns, raw, ml, reg, clock, sc) ==
    LET thresholds == _get_thresholds(timeframe, symbol)
        ml_direction == IF ml.failed THEN "neutral" ELSE ml.direction
        ml_confidence == IF ml.failed THEN 0 ELSE ml.confidence
        regime == IF reg.failed THEN "unknown" ELSE reg.regime
        composite_score == CompositeScore(sc)
        direction == Direction(composite_score, thresholds.min_score)
        confluence_count == IF direction = "long" THEN Len(sc.bullish_reasons)
                            ELSE Len(sc.bearish_reasons)
        ml_agrees == MlAgrees(direction, ml_direction)
        regime_compatible == RegimeCompatible(direction, regime)
        confidence == Confidence(sc, direction, ml_agrees, ml_confidence,
                                 regime_compatible, confluence_count,
                                 thresholds.min_confluence)
        rsi_val == SnapshotValue(raw, "rsi", 500)
        filt == ApplyLossFilters(loss_patterns, 1, regime, direction, rsi_val,
                                 confidence, FALSE)
        atr_value == AtrValue(raw, df)
        current_price == df.tail[Len(df.tail)].close
        lv == Levels(direction, current_price, atr_value,
                     _get_atr_multipliers(symbol, timeframe))
        signal ==
            [symbol |-> symbol, timeframe |-> timeframe, direction |-> direction,
             status |-> "pending",
             entry_price |-> Round2(lv.entry_price),
             stop_loss |-> Round2(lv.stop_loss),
             take_profit |-> Round2(lv.take_profit),
             risk_reward_ratio |-> lv.risk_reward,
             confidence |-> filt.confidence,
             composite_score |-> composite_score,
             ml_confidence |-> IF ml_confidence > 0 THEN ml_confidence ELSE None,
             regime_at_signal |-> regime,
             signal_reasons |->
                 [direction |-> direction,
                  bullish_indicators |-> sc.bullish_reasons,
                  bearish_indicators |-> sc.bearish_reasons,
                  confluence_count |-> confluence_count,
                  ml_agrees |-> ml_agrees,
                  regime_compatible |-> regime_compatible,
                  loss_filter_applied |-> filt.loss_filter_applied,
                  atr_value |-> RoundHalfEven(atr_value.n, atr_value.d)],
             indicator_snapshot |-> IndicatorSnapshot(raw, ml, reg),
             mtf_confluence |-> FALSE,
             agreeing_timeframes |-> <<timeframe>>,
             generated_at |-> clock,
             expires_at |-> clock + expiry_map(timeframe)]
        Quiet(event) == [signals |-> <<>>, log |-> [event |-> event]]
    IN  IF df.rows < 50 THEN Quiet("insufficient_data")
        ELSE IF sc.total_weight = 0 THEN Quiet("no_indicators")
        ELSE IF direction = None
        THEN [signals |-> <<>>,
              log |-> [event |-> "signal_score_neutral",
                       composite_score |-> composite_score,
                       threshold |-> thresholds.min_score]]
        ELSE IF OverextensionBlock(direction, rsi_val)
        THEN [signals |-> <<>>,
              log |-> [event |-> IF direction = "long"
                                 THEN "signal_blocked_overbought"
                                 ELSE "signal_blocked_oversold",
                       rsi |-> rsi_val, direction |-> direction]]
        ELSE IF filt.blocked
        THEN [signals |-> <<>>,
              log |-> [event |-> "signal_blocked_overextended_pattern",
                       rsi |-> rsi_val]]
        ELSE IF BelowMinConfidence(filt.confidence, thresholds.min_confidence)
        THEN [signals |-> <<>>,
              log |-> [event |-> "signal_below_confidence",
                       confidence |-> filt.confidence,
                       threshold |-> thresholds.min_confidence,
                       composite_score |-> composite_score,
                       direction |-> direction,
                       confluence |-> confluence_count]]
        ELSE [signals |-> <<signal>>,
              log |-> [event |-> "signal_generated", direction |-> direction,
                       score |-> composite_score]]

generate_signals(df, symbol, timeframe, loss_patterns, raw, ml, reg, clock) ==
    Let(ScoreIndicators(raw, Len(IndicatorOrder)),
        LAMBDA sc : SignalsFromScores(df, symbol, timeframe, loss_patterns, raw,
                                      ml, reg, clock, sc))

------------------------------------------------------------------------------
(* outcome_tracker.py: check_signal_outcome *)

\* the pending -> active trigger
Triggered(direction, entry_price, current_price, high, low) ==
    \/ direction = "long" /\ low <= entry_price
    \/ direction = "short" /\ high >= entry_price
    \/ direction = "long" /\ 1000 * (current_price - entry_price) <= entry_price
    \/ direction = "short" /\ 1000 * (entry_price - current_price) <= entry_price

\* round(pnl / entry_price * 100, 4), in units of 0.0001 %
PnlPct(pnl, entry_price) ==
    LET a == Abs(pnl)
        m == ScaledDiv(a \div entry_price, a % entry_price, entry_price, 6)
    IN  IF pnl < 0 THEN -m ELSE m

\* the expiry update carrying an exit at the entry price
MutExpiredUpdate(signal, clock) ==
    Merge(signal, [status |-> "expired", closed_at |-> clock,
                   exit_price |-> Get(signal, "entry_price", 0), outcome_pnl |-> 0,
                   outcome_pnl_pct |-> 0])

\* the dict returned for a pending signal past its expiry
ExpiredUpdate(signal, clock) ==
    Merge(signal, [status |-> "expired", closed_at |-> clock])

\* the closing update with the realised move measured from the candle's extreme
MutClosed(signal, status, exit_price, pnl, entry_price, mfe, mae, clock) ==
    Merge(signal,
          [status |-> status, exit_price |-> exit_price,
           outcome_pnl |-> Round2(IF status = "win" THEN mfe ELSE -mae),
           outcome_pnl_pct |-> PnlPct(pnl, entry_price),
           max_favorable |-> Round2(mfe), max_adverse |-> Round2(mae),
           closed_at |-> clock])

\* the dict returned when a level is hit
Closed(signal, status, exit_price, pnl, entry_price, mfe, mae, clock) ==
    Merge(signal,
          [status |-> status, exit_price |-> exit_price,
           outcome_pnl |-> Round2(pnl),
           outcome_pnl_pct |-> PnlPct(pnl, entry_price),
           max_favorable |-> Round2(mfe), max_adverse |-> Round2(mae),
           closed_at |-> clock])

\* the expiry test without its status condition
MutExpired(expires_at, clock, status) ==
    \E e \in expires_at : clock > e

\* the running maximum forgetting the stored value
MutRunningMax(stored, excursion) == excursion

\* the SL/TP branch entered by every signal that is no longer pending
MutIsActive(status) == status # "pending"

\* the expiry test guarding the pending -> expired transition
\* (expires_at is the set holding signal["expires_at"] when the key is there)
Expired(expires_at, clock, status) ==
    \E e \in expires_at : clock > e /\ status = "pending"

\* max(mfe, favorable) and max(mae, adverse)
RunningMax(stored, excursion) == Max(stored, excursion)

\* the guard of the SL/TP branch
IsActive(status) == status = "active"

\* the order of the tests with the stop tested first
MutLevelTaken(tp_hit, sl_hit) ==
    IF sl_hit THEN "stop_loss" ELSE IF tp_hit THEN "take_profit" ELSE "none"

\* the order of the two tests of the SL/TP branch: the take-profit test comes
\* first and returns, the stop test is reached only when it fails
LevelTaken(tp_hit, sl_hit) ==
    IF tp_hit THEN "take_profit" ELSE IF sl_hit THEN "stop_loss" ELSE "none"

\* check_signal_outcome(signal, current_price, high, low) called at time clock.
\* Returns [none |-> TRUE] for None, else [none |-> FALSE, update |-> the dict].
check_signal_outcome(signal, current_price, high, low, clock) ==
    LET status == Get(signal, "status", "pending")
        direction == Get(signal, "direction", "long")
        entry_price == Get(signal, "entry_price", 0)
        stop_loss == Get(signal, "stop_loss", 0)
        take_profit == Get(signal, "take_profit", 0)
        expires_at == IF "expires_at" \in DOMAIN signal
                      THEN {signal["expires_at"]} ELSE {}
        stored_mfe == Get(signal, "max_favorable", 0)
        stored_mae == Get(signal, "max_adverse", 0)
        favorable == IF direction = "long" THEN high - entry_price
                     ELSE entry_price - low
        adverse == IF direction = "long" THEN entry_price - low
                   ELSE high - entry_price
        mfe == RunningMax(stored_mfe, favorable)
        mae == RunningMax(stored_mae, adverse)
        tp_hit == IF direction = "long" THEN high >= take_profit
                  ELSE low <= take_profit
        sl_hit == IF direction = "long" THEN low <= stop_loss
                  ELSE high >= stop_loss
        NoUpdate == [none |-> TRUE, update |-> signal]
        Update(u) == [none |-> FALSE, update |-> u]
    IN  IF Expired(expires_at, clock, status)
        THEN Update(ExpiredUpdate(signal, clock))
        ELSE IF status = "pending"
        THEN IF Triggered(direction, entry_price, current_price, high, low)
             THEN Update(Merge(signal, [status |-> "active", triggered_at |-> clock]))
             ELSE NoUpdate
        ELSE IF IsActive(status)
        THEN IF LevelTaken(tp_hit, sl_hit) = "take_profit"
             THEN Update(Closed(signal, "win", take_profit,
                                IF direction = "long" THEN take_profit - entry_price
                                ELSE entry_price - take_profit,
                                entry_price, mfe, mae, clock))
             ELSE IF LevelTaken(tp_hit, sl_hit) = "stop_loss"
             THEN Update(Closed(signal, "loss", stop_loss,
                                IF direction = "long" THEN stop_loss - entry_price
                                ELSE entry_price - stop_loss,
                                entry_price, mfe, mae, clock))
             ELSE IF mfe # stored_mfe \/ mae # stored_mae
             THEN Update(Merge(signal, [max_favorable |-> Round2(mfe),
                                        max_adverse |-> Round2(mae)]))
             ELSE NoUpdate
        ELSE NoUpdate

------------------------------------------------------------------------------
(* loss_learning.py *)

MIN_PATTERN_FREQUENCY == 3
ANALYSIS_WINDOW == 50

\* snapshot.get(name, {}).get(field, default)
Snap(signal, name, field, default) ==
    LET snapshot == Get(signal, "indicator_snapshot", EmptyDict)
    IN  IF name \in DOMAIN snapshot /\ field \in DOMAIN snapshot[name]
        THEN snapshot[name][field] ELSE default

\* the seven category predicates of categorize_loss, in the order it tests them
LossPredicates(signal) ==
    LET reasons == Get(signal, "signal_reasons", EmptyDict)
        direction == Get(signal, "direction", "long")
        regime == Get(signal, "regime_at_signal", "unknown")
        entry == Get(signal, "entry_price", 0)
        sl == Get(signal, "stop_loss", 0)
        mfe == Get(signal, "max_favorable", 0)
        mae == Get(signal, "max_adverse", 0)
        rsi_val == Snap(signal, "rsi", "value", 500)
        stoch_val == Snap(signal, "stochastic_rsi", "value", 500)
        vol_class == Snap(signal, "volume_spike", "classification", "")
        vol_val == Snap(signal, "volume_spike", "value", 100)
        ma_class == Snap(signal, "moving_averages", "classification", "")
        atr_val == Snap(signal, "atr", "value", 0)
        risk == IF sl # 0 THEN Abs(entry - sl) ELSE 10000
    IN  <<[category |-> "regime_mismatch",
           hit |-> \/ ~Get(reasons, "regime_compatible", TRUE)
                   \/ direction = "long"
                      /\ regime \in {"trending_down", "volatile_breakout"}
                   \/ direction = "short" /\ regime = "trending_up"],
          [category |-> "overextended",
           hit |-> \/ direction = "long" /\ (rsi_val > 750 \/ stoch_val > 800)
                   \/ direction = "short" /\ (rsi_val < 250 \/ stoch_val < 200)],
          [category |-> "low_confluence",
           hit |-> Get(reasons, "confluence_count", 0) < 4],
          [category |-> "weak_volume",
           hit |-> vol_val < 80 \/ "low" \in KeywordsIn(vol_class)],
          [category |-> "against_trend",
           hit |-> \/ direction = "long" /\ "downtrend" \in KeywordsIn(ma_class)
                   \/ direction = "short" /\ "uptrend" \in KeywordsIn(ma_class)],
          [category |-> "false_breakout",
           hit |-> mfe > 0 /\ 10 * mfe > 3 * risk],
          [category |-> "news_event",
           hit |-> atr_val # 0 /\ mae > 2 * atr_val]>>

\* contributing_factors of categorize_loss
LossFactors(signal, hit) ==
    LET reasons == Get(signal, "signal_reasons", EmptyDict)
        regime == Get(signal, "regime_at_signal", "unknown")
        mfe == Get(signal, "max_favorable", 0)
        mae == Get(signal, "max_adverse", 0)
        atr_val == Snap(signal, "atr", "value", 0)
    IN  Entry("regime_mismatch" \in hit, "regime", regime)
        @@ Entry(~Get(reasons, "regime_compatible", TRUE), "direction",
                 Get(signal, "direction", "long"))
        @@ Entry("overextended" \in hit, "rsi", Snap(signal, "rsi", "value", 500))
        @@ Entry("overextended" \in hit, "stochastic",
                 Snap(signal, "stochastic_rsi", "value", 500))
        @@ Entry("low_confluence" \in hit, "confluence_count",
                 Get(reasons, "confluence_count", 0))
        @@ Entry("weak_volume" \in hit, "volume_ratio",
                 Snap(signal, "volume_spike", "value", 100))
        @@ Entry("against_trend" \in hit, "ma_trend",
                 Snap(signal, "moving_averages", "classification", ""))
        @@ Entry("false_breakout" \in hit, "mfe", mfe)
        @@ Entry("false_breakout" \in hit, "mae", mae)
        @@ Entry("news_event" \in hit, "atr", atr_val)
        @@ Entry("news_event" \in hit, "volatility_multiple",
                 IF atr_val > 0 THEN RoundHalfEven(10 * mae, atr_val) ELSE 0)

\* the triggered categories with the last test's category first
MutTriggeredCategories(preds, i) ==
    LET hits == SelectSeq(preds, LAMBDA p : p.hit)
    IN  [k \in 1..Len(hits) |-> hits[Len(hits) + 1 - k].category]

\* the categories whose predicate triggered, in test order
RECURSIVE TriggeredCategories(_, _)
TriggeredCategories(preds, i) ==
    IF i > Len(preds) THEN <<>>
    ELSE (IF preds[i].hit THEN <<preds[i].category>> ELSE <<>>)
         \o TriggeredCategories(preds, i + 1)

\* the primary category with another fallback tag
MutPrimaryCategory(categories) ==
    IF categories = <<>> THEN "market_noise" ELSE categories[1]

\* the fallback when no predicate triggered, then the primary category
PrimaryCategory(categories) ==
    IF categories = <<>> THEN "unknown" ELSE categories[1]

\* categorize_loss(signal) called at time clock (the detail text is left out)
categorize_loss(signal, clock) ==
    Let(Let(LossPredicates(signal), LAMBDA preds : TriggeredCategories(preds, 1)),
        LAMBDA triggered :
            [category |-> PrimaryCategory(triggered),
             all_categories |-> IF triggered = <<>> THEN <<"unknown">>
                                ELSE triggered,
             contributing_factors |->
                 LossFactors(signal, {triggered[i] : i \in 1..Len(triggered)}),
             mfe |-> Get(signal, "max_favorable", 0),
             mae |-> Get(signal, "max_adverse", 0),
             analyzed_at |-> clock])

\* the hot-pattern test with the bar one loss too low
MutHotPattern(count) == count >= MIN_PATTERN_FREQUENCY - 1

\* a category is a pattern when it has at least MIN_PATTERN_FREQUENCY losses
HotPattern(count) == count >= MIN_PATTERN_FREQUENCY

\* completed[-window:]
Recent(completed, window) ==
    IF Len(completed) > window
    THEN SubSeq(completed, Len(completed) - window + 1, Len(completed))
    ELSE completed

\* Counter(items).most_common(): <<[key, count], ..>> by falling count, equal
\* counts in the order of first occurrence (items is a sequence of keys)
MostCommon(items) ==
    LET keys == {items[i] : i \in DOMAIN items}
        Count(k) == Cardinality({i \in DOMAIN items : items[i] = k})
        First(k) == CHOOSE i \in DOMAIN items :
                        items[i] = k /\ \A j \in 1..(i - 1) : items[j] # k
        Before(a, b) == \/ Count(a) > Count(b)
                        \/ Count(a) = Count(b) /\ First(a) < First(b)
        Rank(k) == Cardinality({a \in keys : Before(a, k)}) + 1
    IN  [r \in 1..Cardinality(keys) |->
            LET k == CHOOSE x \in keys : Rank(x) = r
            IN  [key |-> k, count |-> Count(k)]]

\* sum of f[i] over 1..n
RECURSIVE SumTo(_, _)
SumTo(f, n) == IF n = 0 THEN 0 ELSE f[n] + SumTo(f, n - 1)

\* the most common (regime, direction) of the analyses' contributing factors
CommonCombo(analyses) ==
    Let([i \in 1..Len(analyses) |->
            <<Get(analyses[i].contributing_factors, "regime", ""),
              Get(analyses[i].contributing_factors, "direction", "")>>],
        LAMBDA combos : MostCommon(combos)[1].key)

\* round(avg, 1) of the analyses' RSI factors
AverageRsi(analyses) ==
    Let([i \in 1..Len(analyses) |->
            Get(analyses[i].contributing_factors, "rsi", 500)],
        LAMBDA rsis : RoundHalfEven(SumTo(rsis, Len(rsis)), Len(rsis)))

\* the conditions of a hot pattern, from the analyses of its category
PatternConditions(cat, analyses) ==
    IF cat = "regime_mismatch"
    THEN [category |-> cat, regime |-> CommonCombo(analyses)[1],
          direction |-> CommonCombo(analyses)[2]]
    ELSE IF cat = "overextended"
    THEN [category |-> cat, avg_rsi_at_entry |-> AverageRsi(analyses)]
    ELSE [category |-> cat]

\* round(sum(pnls) / len(pnls), 3) over the losses filed under cat, in
\* thousandths of a percent
AverageLossPct(cat, losses) ==
    Let(SelectSeq(losses,
                  LAMBDA s : \/ Get(Get(s, "loss_analysis", EmptyDict),
                                    "category", None) = cat
                             \/ Get(s, "loss_category", None) = cat),
        LAMBDA related_losses :
            Let([i \in 1..Len(related_losses) |->
                    Get(related_losses[i], "outcome_pnl_pct", 0)],
                LAMBDA pnls : IF Len(pnls) > 0
                              THEN RoundHalfEven(SumTo(pnls, Len(pnls)),
                                                 10 * Len(pnls))
                              ELSE 0))

\* the pattern built for the r-th hot category
LossPattern(r, hot, loss_analyses, losses, total_window) ==
    [id |-> <<hot[r].key, r - 1>>,
     category |-> hot[r].key,
     conditions |->
         Let(SelectSeq(loss_analyses, LAMBDA a : a.category = hot[r].key),
             LAMBDA analyses : PatternConditions(hot[r].key, analyses)),
     frequency |-> hot[r].count,
     total_window |-> total_window,
     avg_loss_pct |-> AverageLossPct(hot[r].key, losses),
     is_active |-> TRUE]

\* the analysis of the window's losses, each the stored loss_analysis or a fresh
\* categorize_loss
LossAnalyses(losses, clock) ==
    [i \in 1..Len(losses) |->
        IF "loss_analysis" \in DOMAIN losses[i]
        THEN losses[i].loss_analysis
        ELSE categorize_loss(losses[i], clock)]

\* the hot categories of the analyses, most common first
HotCategories(loss_analyses) ==
    Let([i \in 1..Len(loss_analyses) |->
            Get(loss_analyses[i], "category", "unknown")],
        LAMBDA cats :
            Let(MostCommon(cats),
                LAMBDA category_counter :
                    SelectSeq(category_counter, LAMBDA c : HotPattern(c.count))))

\* the result for a non-empty window
WindowAnalysis(recent, losses, loss_analyses, hot) ==
    [patterns |-> [r \in 1..Len(hot) |->
                      LossPattern(r, hot, loss_analyses, losses, Len(recent))],
     total_analyzed |-> Len(recent),
     total_losses |-> Len(losses),
     total_wins |-> Len(SelectSeq(recent, LAMBDA s : s.status = "win")),
     active_filters |-> Len(hot)]

\* analyze_loss_patterns(signals, window) called at time clock.  The win rates,
\* the loss breakdown and the recommendation texts are left out.
analyze_loss_patterns(sigs, window, clock) ==
    Let(Recent(SelectSeq(sigs, LAMBDA s : Get(s, "status", None) \in {"win", "loss"}),
               window),
        LAMBDA recent :
            IF Len(recent) = 0
            THEN [patterns |-> <<>>, total_analyzed |-> 0, total_losses |-> 0,
                  total_wins |-> 0, active_filters |-> 0]
            ELSE Let(SelectSeq(recent, LAMBDA s : s.status = "loss"),
                     LAMBDA losses :
                         Let(LossAnalyses(losses, clock),
                             LAMBDA loss_analyses :
                                 Let(HotCategories(loss_analyses),
                                     LAMBDA hot :
                                         WindowAnalysis(recent, losses,
                                                        loss_analyses, hot)))))

\* get_active_loss_filters(signals)
get_active_loss_filters(sigs, clock) ==
    SelectSeq(analyze_loss_patterns(sigs, ANALYSIS_WINDOW, clock).patterns,
              LAMBDA pattern : Get(pattern, "is_active", FALSE))

------------------------------------------------------------------------------
(* Inputs of the signal engine drawn by the model *)

MaxPatterns == 1   \* longest loss_patterns list of a single run

Meta(cls, div, cross) == [classification |-> cls, divergence |-> div, crossover |-> cross]
Absent == [present |-> FALSE, value |-> 0, metadata |-> Meta("", "", "")]
Res(v, cls, div, cross) == [present |-> TRUE, value |-> v, metadata |-> Meta(cls, div, cross)]

RsiResults ==
    {Absent,
     Res(279, "oversold", "", ""), Res(280, "oversold", "", ""),
     Res(340, "bearish_momentum", "", ""),
     Res(500, "neutral", "", ""), Res(500, "neutral", "bullish_divergence", ""),
     Res(660, "bullish_momentum", "", ""),
     Res(720, "overbought", "", ""), Res(721, "overbought", "", "")}
MacdResults ==
    {Res(0, "bullish_momentum", "", "bullish_crossover"),
     Res(0, "bearish_momentum", "", "")}
MaResults ==
    {Res(0, "strong_uptrend", "", ""), Res(0, "downtrend", "", "")}
SmartMoneyResults ==
    {Res(0, "bullish_structure", "", ""), Res(0, "bearish_structure", "", "")}
VolumeResults ==
    {Absent, Res(150, "accumulation", "", ""), Res(150, "distribution", "", "")}

\* calculate_all(df): the results drawn for five indicators, those the market
\* fixes for atr, stochastic_rsi and key_levels; the others return no result
Raw(rsi, macd, ma, sm, vol, m) ==
    [n \in {IndicatorOrder[i] : i \in 1..Len(IndicatorOrder)} |->
        CASE n = "rsi" -> rsi
          [] n = "macd" -> macd
          [] n = "moving_averages" -> ma
          [] n = "smart_money" -> sm
          [] n = "volume_spike" -> vol
          [] n = "atr" -> m.atr
          [] n = "stochastic_rsi" -> m.stochastic_rsi
          [] n = "key_levels" -> m.key_levels
          [] OTHER -> Absent]

\* the last 14 candles of a frame oscillating amp around close
FrameTail(close, amp) ==
    [i \in 1..14 |-> [high |-> close + amp, low |-> close - amp, close |-> close]]

Market(symbol, timeframe, rows, close, amp, atr, stoch, kl) ==
    [symbol |-> symbol, timeframe |-> timeframe,
     df |-> [rows |-> rows, tail |-> FrameTail(close, amp)], atr |-> atr,
     stochastic_rsi |-> stoch, key_levels |-> kl]

StochUp   == Res(300, "bullish_reversal", "", "bullish_crossover")
StochDown == Res(700, "bearish_reversal", "", "bearish_crossover")

\* (symbol, timeframe, frame, ATR, stochastic RSI and key level result) combinations
Markets ==
    {Market("XAUUSD", "5m", 500, 26503000, 9000,
            Res(32000, "normal_volatility", "", ""), StochDown,
            Res(0, "at_resistance", "", "")),
     Market("XAUUSD", "1d", 500, 26503000, 90000, Absent, Absent, Absent),
     Market("XAUUSD", "30m", 49, 26503000, 9000,
            Res(32000, "normal_volatility", "", ""), Absent, Absent),
     Market("EURUSD", "5m", 500, 10862, 4,
            Res(8, "normal_volatility", "", ""), StochUp,
            Res(0, "at_support", "", "")),
     Market("EURUSD", "1h", 500, 10862, 0, Absent, Absent, Absent),
     Market("USDJPY", "15m", 500, 1512500, 600,
            Res(1200, "high_volatility", "", ""), Absent, Absent),
     Market("XAUUSD", "1h", 500, 26503000, 20000,
            Res(40000, "normal_volatility", "", ""), Absent, Absent),
     Market("XRPUSD", "15m", 500, 5231, 20,
            Res(40, "normal_volatility", "", ""), StochDown,
            Res(0, "at_resistance", "", ""))}

\* the markets on which the paired runs are compared (one per threshold row)
ComparedMarkets == {m \in Markets : m.timeframe \in {"5m", "1d"} \/ m.symbol = "XRPUSD"}

MlResults ==
    {[failed |-> TRUE, direction |-> "neutral", confidence |-> 0],
     [failed |-> FALSE, direction |-> "bullish", confidence |-> 90],
     [failed |-> FALSE, direction |-> "bearish", confidence |-> 60],
     [failed |-> FALSE, direction |-> "neutral", confidence |-> 70]}

RegimeResults ==
    {[failed |-> TRUE, regime |-> "unknown", confidence |-> 0],
     [failed |-> FALSE, regime |-> "trending_up", confidence |-> 80],
     [failed |-> FALSE, regime |-> "trending_down", confidence |-> 80]}

\* a LossPattern as analyze_loss_patterns builds it and the engine reads it; only
\* a regime_mismatch pattern carries regime and direction conditions
Pattern(cat, regime, direction, frequency) ==
    [id |-> <<cat, 0>>, category |-> cat,
     conditions |-> IF cat = "regime_mismatch"
                    THEN [category |-> cat, regime |-> regime, direction |-> direction]
                    ELSE [category |-> cat],
     frequency |-> frequency, is_active |-> TRUE]

\* patterns matching a regime-incompatible run, matching a regime-compatible run,
\* and the one that blocks near the RSI extremes
PatternPool ==
    {Pattern("regime_mismatch", "trending_down", "long", 3),
     Pattern("regime_mismatch", "trending_up", "long", 4),
     Pattern("overextended", None, None, 3)}

RECURSIVE SeqsUpTo(_, _)
SeqsUpTo(S, n) ==
    IF n = 0 THEN {<<>>}
    ELSE LET shorter == SeqsUpTo(S, n - 1)
         IN  shorter \cup {Append(q, x) : q \in shorter, x \in S}

PatternLists == SeqsUpTo(PatternPool, MaxPatterns)

------------------------------------------------------------------------------
(* Specification of the signal engine *)

\* scanInput.extra is <<>> or the one pattern appended for the second run
NoScan == [symbol |-> None, timeframe |-> None, regime |-> None, extra |-> <<>>]
NoCheck == [called |-> FALSE]

InitEngine ==
    /\ pendPc = "idle"
    /\ ohlcv_rows = <<>>
    /\ pendStore = <<>>
    /\ pendNow = 0
    /\ fetchInput = <<>>
    /\ fetchLog = [called |-> FALSE]
    /\ mtfInput = <<>>
    /\ mtfLog = [called |-> FALSE]
    /\ scoreInput = <<>>
    /\ scoreLog = [called |-> FALSE]
    /\ lossSignal = <<>>
    /\ lossAnalysis = [called |-> FALSE]
    /\ macroPc = <<>>
    /\ memCache = None
    /\ fileCache = None
    /\ _refreshing = FALSE
    /\ bgTasks = <<>>
    /\ macroLog = [called |-> FALSE]
    /\ loopPc = <<>>
    /\ scan_count = 0
    /\ last_summary_date = None
    /\ utcNow = <<>>
    /\ cycleLog = <<>>
    /\ emitted = <<>>
    /\ lists = EmptyDict
    /\ savePc = <<>>
    /\ assigned = <<>>
    /\ apiStore = <<>>
    /\ apiLog = [called |-> FALSE]
    /\ adapters = <<>>
    /\ routes = EmptyDict
    /\ routeLog = [called |-> FALSE]
    /\ candles = {}
    /\ ingestLog = [called |-> FALSE]
    /\ signals = <<>>
    /\ baseline = <<>>
    /\ scanInput = NoScan
    /\ scanLog = [event |-> "none"]
    /\ sig = EmptyDict
    /\ now = 0
    /\ lastCheck = NoCheck
    /\ store = <<>>
    /\ idCounter = 0
    /\ dbBar = 0
    /\ scanPc = <<>>
    /\ scanBar = <<>>
    /\ scanOpen = <<>>
    /\ history = <<>>
    /\ patterns = <<>>

\* one call generate_signals(df, symbol, timeframe, loss_patterns)
Scan ==
    /\ scanLog.event = "none"
    /\ \E m \in Markets, rsi \in RsiResults, macd \in MacdResults, ma \in MaResults,
       sm \in SmartMoneyResults, vol \in VolumeResults, ml \in MlResults,
       reg \in RegimeResults, lp \in PatternLists :
        \E raw \in {Raw(rsi, macd, ma, sm, vol, m)} :
        \E out \in {generate_signals(m.df, m.symbol, m.timeframe, lp,
                                     raw, ml, reg, 0)} :
            /\ signals' = out.signals
            /\ baseline' = out.signals
            /\ scanLog' = out.log
            /\ scanInput' = [symbol |-> m.symbol, timeframe |-> m.timeframe,
                             regime |-> IF reg.failed THEN "unknown" ELSE reg.regime,
                             extra |-> <<>>]
            /\ UNCHANGED <<trackerVars, raceVars, lossVars, moreVars>>

\* the same call made twice on identical inputs, once with one more active loss
\* pattern appended to loss_patterns
ScanWithExtraPattern ==
    /\ scanLog.event = "none"
    /\ \E m \in ComparedMarkets, rsi \in RsiResults, macd \in MacdResults,
       ma \in MaResults, sm \in SmartMoneyResults, ml \in MlResults,
       reg \in RegimeResults, lp \in PatternLists, extra \in PatternPool :
        \E raw \in {Raw(rsi, macd, ma, sm, Absent, m)} :
        \E without \in {generate_signals(m.df, m.symbol, m.timeframe, lp,
                                         raw, ml, reg, 0)},
           with \in {generate_signals(m.df, m.symbol, m.timeframe,
                                      Append(lp, extra), raw, ml, reg, 0)} :
            /\ signals' = with.signals
            /\ baseline' = without.signals
            /\ scanLog' = with.log
            /\ scanInput' = [symbol |-> m.symbol, timeframe |-> m.timeframe,
                             regime |-> IF reg.failed THEN "unknown" ELSE reg.regime,
                             extra |-> <<extra>>]
            /\ UNCHANGED <<trackerVars, raceVars, lossVars, moreVars>>

NextEngine == Scan \/ ScanWithExtraPattern

SpecEngine == InitEngine /\ [][NextEngine]_vars

------------------------------------------------------------------------------
(* Specification of the outcome tracker: one signal of the store followed      *)
(* through successive outcome checks (scalper_scan.py, step 6)                 *)

AllBullish == [rsi |-> Res(660, "bullish_momentum", "", ""),
               macd |-> Res(0, "bullish_momentum", "", "bullish_crossover"),
               ma |-> Res(0, "strong_uptrend", "", ""),
               sm |-> Res(0, "bullish_structure", "", ""),
               vol |-> Res(150, "accumulation", "", ""),
               reg |-> [failed |-> FALSE, regime |-> "trending_up", confidence |-> 80]]
AllBearish == [rsi |-> Res(340, "bearish_momentum", "", ""),
               macd |-> Res(0, "bearish_momentum", "", ""),
               ma |-> Res(0, "downtrend", "", ""),
               sm |-> Res(0, "bearish_structure", "", ""),
               vol |-> Res(150, "distribution", "", ""),
               reg |-> [failed |-> FALSE, regime |-> "trending_down", confidence |-> 80]]

\* the markets whose signal is followed, with the side their indicators agree on
TrackedMarkets ==
    {<<m, AllBullish>> : m \in {x \in Markets : x.timeframe \in {"1h", "1d"}
                                                 \/ x.symbol = "EURUSD"}}
    \cup {<<m, AllBearish>> : m \in {x \in Markets : x.timeframe \in {"5m", "15m"}}}

\* the signals generate_signals emits for them
\* one run of the engine at time 0 with no ML model loaded and no loss pattern
Emitted(m, ind, reg) ==
    Let(Raw(ind.rsi, ind.macd, ind.ma, ind.sm, ind.vol, m),
        LAMBDA raw :
            Let(generate_signals(m.df, m.symbol, m.timeframe, <<>>, raw,
                                 [failed |-> TRUE, direction |-> "neutral",
                                  confidence |-> 0],
                                 reg, 0),
                LAMBDA out : {out.signals[i] : i \in 1..Len(out.signals)}))

TrackedSignals == UNION {Emitted(t[1], t[2], t[2].reg) : t \in TrackedMarkets}

InitTracker ==
    /\ pendPc = "idle"
    /\ ohlcv_rows = <<>>
    /\ pendStore = <<>>
    /\ pendNow = 0
    /\ fetchInput = <<>>
    /\ fetchLog = [called |-> FALSE]
    /\ mtfInput = <<>>
    /\ mtfLog = [called |-> FALSE]
    /\ scoreInput = <<>>
    /\ scoreLog = [called |-> FALSE]
    /\ lossSignal = <<>>
    /\ lossAnalysis = [called |-> FALSE]
    /\ macroPc = <<>>
    /\ memCache = None
    /\ fileCache = None
    /\ _refreshing = FALSE
    /\ bgTasks = <<>>
    /\ macroLog = [called |-> FALSE]
    /\ loopPc = <<>>
    /\ scan_count = 0
    /\ last_summary_date = None
    /\ utcNow = <<>>
    /\ cycleLog = <<>>
    /\ emitted = <<>>
    /\ lists = EmptyDict
    /\ savePc = <<>>
    /\ assigned = <<>>
    /\ apiStore = <<>>
    /\ apiLog = [called |-> FALSE]
    /\ adapters = <<>>
    /\ routes = EmptyDict
    /\ routeLog = [called |-> FALSE]
    /\ candles = {}
    /\ ingestLog = [called |-> FALSE]
    /\ sig \in TrackedSignals
    /\ now = 0
    /\ lastCheck = NoCheck
    /\ signals = <<>>
    /\ baseline = <<>>
    /\ scanInput = NoScan
    /\ scanLog = [event |-> "none"]
    /\ store = <<>>
    /\ idCounter = 0
    /\ dbBar = 0
    /\ scanPc = <<>>
    /\ scanBar = <<>>
    /\ scanOpen = <<>>
    /\ history = <<>>
    /\ patterns = <<>>

\* the instants at which the signal is looked at: before, at and after expires_at
ClockInstants(signal) ==
    {signal.expires_at \div 2, signal.expires_at, signal.expires_at + 1}

\* time passes
Tick ==
    /\ \E t \in ClockInstants(sig) : t > now /\ now' = t
    /\ UNCHANGED <<sig, lastCheck, engineVars, raceVars, lossVars, moreVars>>

\* prices of the latest candle: a grid around the entry that is off the cent
\* grid, and the two levels themselves
PriceUnit(signal) == Abs(signal.take_profit - signal.stop_loss) \div 3 + 7
PriceGrid(signal) ==
    {signal.entry_price + k * PriceUnit(signal) : k \in -2..2}
    \cup {signal.stop_loss, signal.take_profit}
Bars(signal) ==
    {[low |-> l, close |-> c, high |-> h] :
        l \in PriceGrid(signal), c \in PriceGrid(signal), h \in PriceGrid(signal)}

ValidBar(bar) == bar.low <= bar.close /\ bar.close <= bar.high

\* the loop body attaching the loss analysis to every closed signal
MutApplyUpdate(signal, update, clock) ==
    Let(Merge(signal, update),
        LAMBDA updated :
            IF updated.status \in {"win", "loss"}
            THEN Let(categorize_loss(updated, clock),
                     LAMBDA analysis :
                         Merge(updated, [loss_analysis |-> analysis,
                                         loss_category |-> analysis.category]))
            ELSE updated)

\* scalper_scan.py step 6, the loop body for one signal: sig.update(update) and,
\* on a loss, the loss analysis
ApplyUpdate(signal, update, clock) ==
    Let(Merge(signal, update),
        LAMBDA updated :
            IF updated.status = "loss"
            THEN Let(categorize_loss(updated, clock),
                     LAMBDA analysis :
                         Merge(updated, [loss_analysis |-> analysis,
                                         loss_category |-> analysis.category]))
            ELSE updated)

\* what the candle does to signal s: it satisfies the entry trigger, it reaches
\* the take-profit, it reaches the stop
BarTriggers(s, bar) == Triggered(s.direction, s.entry_price, bar.close, bar.high, bar.low)
ReachesTarget(s, bar) ==
    IF s.direction = "long" THEN bar.high >= s.take_profit ELSE bar.low <= s.take_profit
ReachesStop(s, bar) ==
    IF s.direction = "long" THEN bar.low <= s.stop_loss ELSE bar.high >= s.stop_loss
BarHits(s, bar) ==
    [entry |-> BarTriggers(s, bar), target |-> ReachesTarget(s, bar),
     stop |-> ReachesStop(s, bar)]

\* one outcome check of the signal against the latest candle; the check is made
\* whatever the status is, also on a signal that is closed already
CheckOutcome ==
    /\ \E bar \in Bars(sig) :
        /\ ValidBar(bar)
        /\ \E result \in {check_signal_outcome(sig, bar.close, bar.high, bar.low,
                                                now)} :
               /\ sig' = IF result.none THEN sig
                         ELSE ApplyUpdate(sig, result.update, now)
               /\ lastCheck' = [called |-> TRUE, status |-> sig.status,
                                none |-> result.none, same |-> sig' = sig,
                                hit |-> BarHits(sig, bar)]
    /\ UNCHANGED <<now, engineVars, raceVars, lossVars, moreVars>>

NextTracker == Tick \/ CheckOutcome

SpecTracker == InitTracker /\ [][NextTracker]_vars

------------------------------------------------------------------------------
(* Specification of the loss-learning analyzer: the signal list of one symbol  *)
(* grows by runs of signals and the scan derives its loss filters from it      *)
(* (scalper_scan.py, step 3)                                                   *)

MaxRuns == 2   \* runs of equal signals in the list

\* one outcome check of a signal against a candle, the update applied
Step(signal, bar, clock) ==
    Let(check_signal_outcome(signal, bar.close, bar.high, bar.low, clock),
        LAMBDA result : IF result.none THEN signal
                        ELSE ApplyUpdate(signal, result.update, clock))

EntryBar(s) == [low |-> s.entry_price, close |-> s.entry_price, high |-> s.entry_price]
StopBar(s) ==
    [low |-> Min(s.entry_price, s.stop_loss), close |-> s.stop_loss,
     high |-> Max(s.entry_price, s.stop_loss)]
TargetBar(s) ==
    [low |-> Min(s.entry_price, s.take_profit), close |-> s.take_profit,
     high |-> Max(s.entry_price, s.take_profit)]
\* a candle that runs one price unit in favour of the signal
RunBar(s) ==
    LET to == IF s.direction = "long" THEN s.entry_price + PriceUnit(s)
              ELSE s.entry_price - PriceUnit(s)
    IN  [low |-> Min(s.entry_price, to), close |-> to, high |-> Max(s.entry_price, to)]

\* the candle of one kind for the signal
BarFor(kind, s) ==
    CASE kind = "entry" -> EntryBar(s)
      [] kind = "run" -> RunBar(s)
      [] kind = "stop" -> StopBar(s)
      [] kind = "target" -> TargetBar(s)

\* the signals of S after one outcome check of each against its candle
After(S, kind, clock) == {Step(s, BarFor(kind, s), clock) : s \in S}

\* signals triggered and then stopped out, stopped out after a favourable run,
\* or closed at their target
Lost(S) == After(After(S, "entry", 1), "stop", 2)
LostAfterRun(S) == After(After(After(S, "entry", 1), "run", 2), "stop", 3)
Won(S) == After(After(S, "entry", 1), "target", 2)

\* the XAUUSD signals of the tracker, and a long emitted in a volatile breakout
TrendSignals == {s \in TrackedSignals : s.symbol = "XAUUSD"}
BreakoutSignals ==
    UNION {Emitted(m, AllBullish, [failed |-> FALSE, regime |-> "volatile_breakout",
                                   confidence |-> 70]) :
           m \in {x \in Markets : x.symbol = "XAUUSD" /\ x.timeframe = "1h"}}

\* the signals the list is made of
Archetypes ==
    Lost({s \in TrendSignals : s.timeframe = "1h"} \cup BreakoutSignals)
    \cup LostAfterRun({s \in TrendSignals : s.timeframe = "1h"})
    \cup Won({s \in TrendSignals : s.timeframe = "5m"})
    \cup {s \in TrendSignals : s.timeframe = "1d"}

RunLengths == {1, 2, 3, 48}

InitLoss ==
    /\ pendPc = "idle"
    /\ ohlcv_rows = <<>>
    /\ pendStore = <<>>
    /\ pendNow = 0
    /\ fetchInput = <<>>
    /\ fetchLog = [called |-> FALSE]
    /\ mtfInput = <<>>
    /\ mtfLog = [called |-> FALSE]
    /\ scoreInput = <<>>
    /\ scoreLog = [called |-> FALSE]
    /\ lossSignal = <<>>
    /\ lossAnalysis = [called |-> FALSE]
    /\ macroPc = <<>>
    /\ memCache = None
    /\ fileCache = None
    /\ _refreshing = FALSE
    /\ bgTasks = <<>>
    /\ macroLog = [called |-> FALSE]
    /\ loopPc = <<>>
    /\ scan_count = 0
    /\ last_summary_date = None
    /\ utcNow = <<>>
    /\ cycleLog = <<>>
    /\ emitted = <<>>
    /\ lists = EmptyDict
    /\ savePc = <<>>
    /\ assigned = <<>>
    /\ apiStore = <<>>
    /\ apiLog = [called |-> FALSE]
    /\ adapters = <<>>
    /\ routes = EmptyDict
    /\ routeLog = [called |-> FALSE]
    /\ candles = {}
    /\ ingestLog = [called |-> FALSE]
    /\ history = <<>>
    /\ patterns = <<>>
    /\ signals = <<>>
    /\ baseline = <<>>
    /\ scanInput = NoScan
    /\ scanLog = [event |-> "none"]
    /\ sig = EmptyDict
    /\ now = 0
    /\ lastCheck = NoCheck
    /\ store = <<>>
    /\ idCounter = 0
    /\ dbBar = 0
    /\ scanPc = <<>>
    /\ scanBar = <<>>
    /\ scanOpen = <<>>

\* the number of runs the list was built from
Runs(h) == Cardinality({i \in 1..Len(h) : i = 1 \/ h[i] # h[i - 1]})

\* since the last scan a run of signals was added to the list; the scan reads
\* the list and computes its loss filters
LoadLossFilters ==
    /\ \E a \in Archetypes, n \in RunLengths :
        /\ IF Len(history) = 0 THEN TRUE ELSE a # history[Len(history)]
        /\ Runs(history) < MaxRuns
        /\ \E grown \in {history \o [i \in 1..n |-> a]} :
               /\ history' = grown
               /\ patterns' = get_active_loss_filters(grown, 4)
    /\ UNCHANGED <<engineVars, trackerVars, raceVars, moreVars>>

NextLoss == LoadLossFilters

SpecLoss == InitLoss /\ [][NextLoss]_vars

------------------------------------------------------------------------------
(* signal_store.py *)

\* a counter that hands the last id out again
MutIncr(counter) == IF counter >= 1 THEN counter ELSE counter + 1

\* r.incr(_COUNTER_KEY): Redis INCR, one atomic command; the value it returns
\* is the new value of the key
Incr(counter) == counter + 1

\* save_signal(signal): the new counter value and the list after the push
save_signal(list, counter, signal) ==
    [counter |-> Incr(counter),
     list |-> Append(list, Merge(signal, [id |-> Incr(counter)]))]

\* get_signals(symbol, status) on the symbol's list
get_signals(list, status) == SelectSeq(list, LAMBDA s : Get(s, "status", None) = status)

\* update_signal(signal_id, updates): the list after the update of the first
\* entry with that id, the list itself when there is none
update_signal(list, signal_id, updates) ==
    LET hits == {idx \in 1..Len(list) : Get(list[idx], "id", 0) = signal_id}
    IN  IF hits = {} THEN list
        ELSE LET idx == CHOOSE i \in hits : \A j \in hits : i <= j
             IN  [list EXCEPT ![idx] = Merge(@, updates)]

------------------------------------------------------------------------------
(* Specification of overlapping scans of one symbol (scalper_scan.py,          *)
(* _async_scan): the Celery beat task and the in-process scanner loop run the  *)
(* same scan on the same Redis list                                            *)

MaxStore == 1   \* signals the scans save to the list

Scans == {1, 2}

\* the market the scans look at
RaceMarkets == {m \in Markets : m.symbol = "XAUUSD" /\ m.timeframe = "1h"}

\* latest candles of that market: quiet around the close, a favourable move,
\* a move through the long target, a move through the long stop
Candle(low, close, high) == [low |-> low, close |-> close, high |-> high]
CandleBars ==
    UNION {LET c == m.df.tail[Len(m.df.tail)].close
           IN  {Candle(c - 10000, c, c + 10000),
                Candle(c, c + 30000, c + 35000),
                Candle(c + 20000, c + 100000, c + 110000),
                Candle(c - 70000, c - 65000, c - 5000)} : m \in RaceMarkets}
QuietBars ==
    UNION {LET c == m.df.tail[Len(m.df.tail)].close
           IN  {Candle(c - 10000, c, c + 10000)} : m \in RaceMarkets}

InitRace ==
    /\ pendPc = "idle"
    /\ ohlcv_rows = <<>>
    /\ pendStore = <<>>
    /\ pendNow = 0
    /\ fetchInput = <<>>
    /\ fetchLog = [called |-> FALSE]
    /\ mtfInput = <<>>
    /\ mtfLog = [called |-> FALSE]
    /\ scoreInput = <<>>
    /\ scoreLog = [called |-> FALSE]
    /\ lossSignal = <<>>
    /\ lossAnalysis = [called |-> FALSE]
    /\ macroPc = <<>>
    /\ memCache = None
    /\ fileCache = None
    /\ _refreshing = FALSE
    /\ bgTasks = <<>>
    /\ macroLog = [called |-> FALSE]
    /\ loopPc = <<>>
    /\ scan_count = 0
    /\ last_summary_date = None
    /\ utcNow = <<>>
    /\ cycleLog = <<>>
    /\ emitted = <<>>
    /\ lists = EmptyDict
    /\ savePc = <<>>
    /\ assigned = <<>>
    /\ apiStore = <<>>
    /\ apiLog = [called |-> FALSE]
    /\ adapters = <<>>
    /\ routes = EmptyDict
    /\ routeLog = [called |-> FALSE]
    /\ candles = {}
    /\ ingestLog = [called |-> FALSE]
    /\ store = <<>>
    /\ idCounter = 0
    /\ dbBar \in QuietBars
    /\ scanPc = [s \in Scans |-> "idle"]
    /\ scanBar = [s \in Scans |-> dbBar]
    /\ scanOpen = [s \in Scans |-> <<>>]
    /\ signals = <<>>
    /\ baseline = <<>>
    /\ scanInput = NoScan
    /\ scanLog = [event |-> "none"]
    /\ sig = EmptyDict
    /\ now = 0
    /\ lastCheck = NoCheck
    /\ history = <<>>
    /\ patterns = <<>>

\* the market moves: ingestion finds a new latest candle
NewCandle ==
    /\ \E bar \in CandleBars : bar # dbBar /\ dbBar' = bar
    /\ UNCHANGED <<store, idCounter, scanPc, scanBar, scanOpen>>
    /\ UNCHANGED <<engineVars, trackerVars, lossVars, moreVars>>

\* steps 1-2: the scan ingests and loads its dataframes
LoadFrames(s) ==
    /\ scanPc[s] = "idle"
    /\ scanPc' = [scanPc EXCEPT ![s] = "loaded"]
    /\ scanBar' = [scanBar EXCEPT ![s] = dbBar]
    /\ UNCHANGED <<store, idCounter, dbBar, scanOpen>>
    /\ UNCHANGED <<engineVars, trackerVars, lossVars, moreVars>>

\* steps 3-4: the engine emits nothing, or a long signal that is saved
SaveSignals(s) ==
    /\ scanPc[s] = "loaded"
    /\ scanPc' = [scanPc EXCEPT ![s] = "saved"]
    /\ \/ UNCHANGED <<store, idCounter>>
       \/ /\ Len(store) < MaxStore
          /\ \E m \in RaceMarkets :
             \E new \in Emitted(m, AllBullish, AllBullish.reg) :
             \E saved \in {save_signal(store, idCounter, new)} :
                 /\ store' = saved.list
                 /\ idCounter' = saved.counter
    /\ UNCHANGED <<dbBar, scanBar, scanOpen>>
    /\ UNCHANGED <<engineVars, trackerVars, lossVars, moreVars>>

\* step 6: the scan reads the active and the pending signals
ReadOpen(s) ==
    /\ scanPc[s] = "saved"
    /\ scanPc' = [scanPc EXCEPT ![s] = "checking"]
    /\ scanOpen' = [scanOpen EXCEPT ![s] =
                       get_signals(store, "active") \o get_signals(store, "pending")]
    /\ UNCHANGED <<store, idCounter, dbBar, scanBar>>
    /\ UNCHANGED <<engineVars, trackerVars, lossVars, moreVars>>

\* step 6, one turn of the loop: the scan checks its copy of the next signal
\* against the candle it loaded and writes the whole copy back
CheckNext(s) ==
    /\ scanPc[s] = "checking"
    /\ scanOpen[s] # <<>>
    /\ \E copy \in {Head(scanOpen[s])} :
       \E result \in {check_signal_outcome(copy, scanBar[s].close, scanBar[s].high,
                                            scanBar[s].low, now)} :
           store' = IF result.none \/ Get(copy, "id", 0) = 0 THEN store
                    ELSE update_signal(store, copy.id,
                                       ApplyUpdate(copy, result.update, now))
    /\ scanOpen' = [scanOpen EXCEPT ![s] = Tail(@)]
    /\ UNCHANGED <<idCounter, dbBar, scanPc, scanBar>>
    /\ UNCHANGED <<engineVars, trackerVars, lossVars, moreVars>>

\* the loop is through and the scan returns
FinishScan(s) ==
    /\ scanPc[s] = "checking"
    /\ scanOpen[s] = <<>>
    /\ scanPc' = [scanPc EXCEPT ![s] = "idle"]
    /\ UNCHANGED <<store, idCounter, dbBar, scanBar, scanOpen>>
    /\ UNCHANGED <<engineVars, trackerVars, lossVars, moreVars>>

NextRace ==
    \/ NewCandle
    \/ \E s \in Scans : LoadFrames(s)
    \/ \E s \in Scans : SaveSignals(s)
    \/ \E s \in Scans : ReadOpen(s)
    \/ \E s \in Scans : CheckNext(s)
    \/ \E s \in Scans : FinishScan(s)

SpecRace == InitRace /\ [][NextRace]_vars

------------------------------------------------------------------------------
(* data/registry.py: symbols are sequences of characters *)

LowerLetters == <<"a", "b", "c", "d", "e", "g", "l", "r", "s", "t", "u", "x">>
UpperLetters == <<"A", "B", "C", "D", "E", "G", "L", "R", "S", "T", "U", "X">>
Letters ==
    {LowerLetters[i] : i \in DOMAIN LowerLetters} \cup
    {UpperLetters[i] : i \in DOMAIN UpperLetters} \cup
    {"F", "H", "I", "J", "K", "M", "N", "O", "P", "V", "W", "Y", "Z"}

\* str.upper()
Upper(symbol) ==
    [i \in DOMAIN symbol |->
        IF \E k \in DOMAIN LowerLetters : LowerLetters[k] = symbol[i]
        THEN UpperLetters[CHOOSE k \in DOMAIN LowerLetters : LowerLetters[k] = symbol[i]]
        ELSE symbol[i]]

\* str.isalpha()
IsAlpha(symbol) == Len(symbol) > 0 /\ \A i \in DOMAIN symbol : symbol[i] \in Letters

\* symbol[:n]
Prefix(symbol, n) == SubSeq(symbol, 1, Min(n, Len(symbol)))

\* str.startswith(base)
StartsWith(symbol, base) == Len(symbol) >= Len(base) /\ Prefix(symbol, Len(base)) = base

_CRYPTO_BASES ==
    {<<"B", "T", "C">>, <<"E", "T", "H">>, <<"S", "O", "L">>, <<"X", "R", "P">>,
     <<"B", "N", "B">>, <<"A", "D", "A">>, <<"D", "O", "G", "E">>, <<"D", "O", "T">>,
     <<"A", "V", "A", "X">>, <<"M", "A", "T", "I", "C">>, <<"L", "I", "N", "K">>,
     <<"U", "N", "I">>}

_FOREX_BASES ==
    {<<"E", "U", "R">>, <<"G", "B", "P">>, <<"U", "S", "D">>, <<"J", "P", "Y">>,
     <<"A", "U", "D">>, <<"C", "A", "D">>, <<"N", "Z", "D">>, <<"C", "H", "F">>}

GoldSymbols ==
    {<<"X", "A", "U", "U", "S", "D">>, <<"X", "A", "G", "U", "S", "D">>,
     <<"G", "C">>, <<"S", "I">>, <<"G", "L", "D">>}

\* an adapter: its name and its market_type.value
Adapter(name, market_type) == [name |-> name, market_type |-> market_type]

\* the result of a call: the adapter it returns or the exception it raises
\* (and then no adapter)
Return(value) == [raised |-> None, value |-> value]
Raise(exception) == [raised |-> exception, value |-> Adapter(None, None)]

\* DataSourceRegistry.register on the dict _adapters
register(_adapters, adapter) ==
    IF \E i \in DOMAIN _adapters : _adapters[i].name = adapter.name
    THEN [i \in DOMAIN _adapters |->
             IF _adapters[i].name = adapter.name THEN adapter ELSE _adapters[i]]
    ELSE Append(_adapters, adapter)

\* DataSourceRegistry.get_adapter, and the indexing self._adapters[name]
get_adapter(_adapters, name) ==
    IF \E i \in DOMAIN _adapters : _adapters[i].name = name
    THEN Return(_adapters[CHOOSE i \in DOMAIN _adapters : _adapters[i].name = name])
    ELSE Raise("KeyError")

\* DataSourceRegistry.set_route on the dict _symbol_routes
set_route(_symbol_routes, symbol, adapter_name) ==
    Merge(_symbol_routes, [k \in {Upper(symbol)} |-> adapter_name])

\* the first adapter of the dict whose market type is one of market_types
FirstOfMarket(_adapters, market_types) ==
    SelectSeq(_adapters, LAMBDA a : a.market_type \in market_types)

\* route_symbol, the explicit route: self._adapters[self._symbol_routes[symbol]]
RouteSymbolOverride(_adapters, _symbol_routes, symbol) ==
    get_adapter(_adapters, _symbol_routes[symbol])

\* DataSourceRegistry.route_symbol
route_symbol(_adapters, _symbol_routes, symbol_in) ==
    LET symbol == Upper(symbol_in)
        metals == FirstOfMarket(_adapters, {"commodity", "forex"})
        crypto == FirstOfMarket(_adapters, {"crypto"})
        forex == FirstOfMarket(_adapters, {"forex"})
    IN  IF symbol \in DOMAIN _symbol_routes
        THEN RouteSymbolOverride(_adapters, _symbol_routes, symbol)
        ELSE IF symbol \in GoldSymbols /\ metals # <<>>
        THEN Return(metals[1])
        ELSE IF Len(symbol) >= 5 /\ Prefix(symbol, 3) \in _CRYPTO_BASES /\ crypto # <<>>
        THEN Return(crypto[1])
        ELSE IF (\E base \in _CRYPTO_BASES : StartsWith(symbol, base)) /\ crypto # <<>>
        THEN Return(crypto[1])
        ELSE IF /\ Len(symbol) = 6 /\ IsAlpha(symbol)
                /\ Prefix(symbol, 3) \in _FOREX_BASES /\ forex # <<>>
        THEN Return(forex[1])
        ELSE Raise("ValueError")

\* the adapter classes registered at startup (main.py, scalper_scan.py)
BinanceAdapter == Adapter("binance", "crypto")
GoldAPIAdapter == Adapter("goldapi", "commodity")
OandaAdapter == Adapter("oanda", "forex")
MassiveAdapter == Adapter("massive", "forex")

\* one more adapter is registered
Register(adapter) ==
    /\ adapters' = register(adapters, adapter)
    /\ adapters' # adapters
    /\ UNCHANGED <<routes, routeLog, candles, ingestLog>>
    /\ UNCHANGED <<engineVars, trackerVars, raceVars, lossVars, saveVars, loopVars, macroVars, catVars, scoreVars, mtfVars, fetchVars, pendVars>>

\* a symbol is routed to an adapter name
SetRoute(symbol, adapter_name) ==
    /\ routes' = set_route(routes, symbol, adapter_name)
    /\ routes' # routes
    /\ UNCHANGED <<adapters, routeLog, candles, ingestLog>>
    /\ UNCHANGED <<engineVars, trackerVars, raceVars, lossVars, saveVars, loopVars, macroVars, catVars, scoreVars, mtfVars, fetchVars, pendVars>>

\* a call of route_symbol; the log keeps the symbol and the result
RouteSymbol(symbol) ==
    /\ routeLog' = [called |-> TRUE, symbol |-> symbol,
                    result |-> route_symbol(adapters, routes, symbol)]
    /\ UNCHANGED <<adapters, routes, candles, ingestLog>>
    /\ UNCHANGED <<engineVars, trackerVars, raceVars, lossVars, saveVars, loopVars, macroVars, catVars, scoreVars, mtfVars, fetchVars, pendVars>>

------------------------------------------------------------------------------
(* Specification of the registry: adapters are registered, symbols are routed *)
(* to adapter names and symbols are resolved, in any order                    *)

xauusd == <<"x", "a", "u", "u", "s", "d">>
BTCUSD == <<"B", "T", "C", "U", "S", "D">>
DOGEUSD == <<"D", "O", "G", "E", "U", "S", "D">>
EURUSD == <<"E", "U", "R", "U", "S", "D">>
TSLA == <<"T", "S", "L", "A">>

RegistryAdapters == {BinanceAdapter, GoldAPIAdapter, OandaAdapter, MassiveAdapter}
RegistryRoutes ==
    {<<<<"X", "A", "U", "U", "S", "D">>, "massive">>, <<xauusd, "goldapi">>,
     <<BTCUSD, "binance">>}
RouteSymbols ==
    {<<"X", "A", "U", "U", "S", "D">>, xauusd, BTCUSD, DOGEUSD, EURUSD, TSLA}

InitRegistry ==
    /\ pendPc = "idle"
    /\ ohlcv_rows = <<>>
    /\ pendStore = <<>>
    /\ pendNow = 0
    /\ fetchInput = <<>>
    /\ fetchLog = [called |-> FALSE]
    /\ mtfInput = <<>>
    /\ mtfLog = [called |-> FALSE]
    /\ scoreInput = <<>>
    /\ scoreLog = [called |-> FALSE]
    /\ lossSignal = <<>>
    /\ lossAnalysis = [called |-> FALSE]
    /\ macroPc = <<>>
    /\ memCache = None
    /\ fileCache = None
    /\ _refreshing = FALSE
    /\ bgTasks = <<>>
    /\ macroLog = [called |-> FALSE]
    /\ loopPc = <<>>
    /\ scan_count = 0
    /\ last_summary_date = None
    /\ utcNow = <<>>
    /\ cycleLog = <<>>
    /\ emitted = <<>>
    /\ lists = EmptyDict
    /\ savePc = <<>>
    /\ assigned = <<>>
    /\ apiStore = <<>>
    /\ apiLog = [called |-> FALSE]
    /\ adapters = <<>>
    /\ routes = EmptyDict
    /\ routeLog = [called |-> FALSE]
    /\ candles = {}
    /\ ingestLog = [called |-> FALSE]
    /\ signals = <<>>
    /\ baseline = <<>>
    /\ scanInput = [called |-> FALSE]
    /\ scanLog = [called |-> FALSE]
    /\ sig = [status |-> "none"]
    /\ now = 0
    /\ lastCheck = [called |-> FALSE]
    /\ store = <<>>
    /\ idCounter = 0
    /\ dbBar = [low |-> 0, close |-> 0, high |-> 0]
    /\ scanPc = <<>>
    /\ scanBar = <<>>
    /\ scanOpen = <<>>
    /\ history = <<>>
    /\ patterns = <<>>

NextRegistry ==
    \/ \E adapter \in RegistryAdapters : Register(adapter)
    \/ \E route \in RegistryRoutes : SetRoute(route[1], route[2])
    \/ \E symbol \in RouteSymbols : RouteSymbol(symbol)

SpecRegistry == InitRegistry /\ [][NextRegistry]_vars

------------------------------------------------------------------------------
(* data/ingestion.py *)

\* a candle: its timestamp and its values, all set from one number
Candle5(timestamp, k) ==
    [timestamp |-> timestamp, open |-> k, high |-> k + 1, low |-> k - 1,
     close |-> k, volume |-> 10 * k]

\* the members of the enum Timeframe
Timeframe == {"1m", "5m", "15m", "30m", "1h", "4h", "1d", "1w", "1M"}

\* the symbols that have a row in the table assets
Assets == {<<"X", "A", "U", "U", "S", "D">>}

\* what a source does when it is asked for candles: it raises, or it returns a
\* frame (a sequence of candles, empty for pd.DataFrame())
Raises == [raises |-> TRUE, df |-> <<>>]
Frame(df) == [raises |-> FALSE, df |-> df]

\* sort_values("timestamp") of a frame without duplicate timestamps
SortByTimestamp(rows) ==
    [i \in 1..Cardinality(rows) |->
        CHOOSE r \in rows :
            Cardinality({q \in rows : q.timestamp < r.timestamp}) = i - 1]

\* df.tail(limit)
TailRows(df, limit) ==
    IF Len(df) > limit THEN SubSeq(df, Len(df) - limit + 1, Len(df)) ELSE df

\* the merge keeping the first row of a timestamp instead of the last
MutMergeDataframes(dfs, limit) ==
    LET non_empty == SelectSeq(dfs, LAMBDA df : df # <<>>)
    IN  IF non_empty = <<>> THEN <<>>
        ELSE IF Len(non_empty) = 1 THEN non_empty[1]
        ELSE LET combined == non_empty[1] \o non_empty[2]
                 kept == {combined[i] : i \in
                             {j \in DOMAIN combined :
                                 \A k \in DOMAIN combined :
                                     k < j => combined[k].timestamp # combined[j].timestamp}}
             IN  TailRows(SortByTimestamp(kept), limit)

\* _merge_dataframes(dfs, limit)
_merge_dataframes(dfs, limit) ==
    LET non_empty == SelectSeq(dfs, LAMBDA df : df # <<>>)
    IN  IF non_empty = <<>> THEN <<>>
        ELSE IF Len(non_empty) = 1 THEN non_empty[1]
        ELSE LET combined == non_empty[1] \o non_empty[2]
                 \* drop_duplicates(subset="timestamp", keep="last")
                 kept == {combined[i] : i \in
                             {j \in DOMAIN combined :
                                 \A k \in DOMAIN combined :
                                     k > j => combined[k].timestamp # combined[j].timestamp}}
             IN  TailRows(SortByTimestamp(kept), limit)

\* the fallback adapter swallowing nothing: its exception leaves the function
MutTryAdapter(_adapters, adapter_name, fetch) ==
    IF get_adapter(_adapters, adapter_name).raised # None THEN Frame(<<>>)
    ELSE fetch[adapter_name]

\* _try_adapter(adapter_name, ...): every exception is logged and swallowed
_try_adapter(_adapters, adapter_name, fetch) ==
    IF get_adapter(_adapters, adapter_name).raised # None THEN Frame(<<>>)
    ELSE IF fetch[adapter_name].raises THEN Frame(<<>>)
    ELSE fetch[adapter_name]

fallback_adapters == <<"massive", "oanda", "alpha_vantage", "goldapi">>
free_sources == <<"stooq", "yahoo">>

\* the fallback chain calling the primary adapter a second time
MutSkipped(_adapters, primary_name, fb_name) ==
    get_adapter(_adapters, fb_name).raised # None

\* the fallback loop passes over the primary and over an unregistered adapter
Skipped(_adapters, primary_name, fb_name) ==
    \/ fb_name = primary_name
    \/ get_adapter(_adapters, fb_name).raised # None

\* the result of the rest of a loop, after the call of one more source
Called(name, rest) == [rest EXCEPT !.calls = <<name>> \o @]

\* _fetch_with_fallback, the fallback chain from its i-th adapter on; the
\* result carries done when the function returns from inside the loop, and
\* calls, the adapters that were asked, in the order of their calls
RECURSIVE FallbackChain(_, _, _, _, _, _, _)
FallbackChain(_adapters, primary_name, fetch, limit, min_rows, best_df, i) ==
    IF i > Len(fallback_adapters)
    THEN [raises |-> FALSE, done |-> FALSE, df |-> best_df, calls |-> <<>>]
    ELSE LET fb_name == fallback_adapters[i]
             Continue(df) == FallbackChain(_adapters, primary_name, fetch, limit,
                                           min_rows, df, i + 1)
         IN  IF Skipped(_adapters, primary_name, fb_name) THEN Continue(best_df)
             ELSE LET fb == _try_adapter(_adapters, fb_name, fetch)
                  IN  IF fb.raises
                      THEN [raises |-> TRUE, done |-> TRUE, df |-> <<>>,
                            calls |-> <<fb_name>>]
                      ELSE IF fb.df = <<>> THEN Called(fb_name, Continue(best_df))
                      ELSE LET merged == _merge_dataframes(<<best_df, fb.df>>, limit)
                           IN  IF Len(merged) >= min_rows
                               THEN [raises |-> FALSE, done |-> TRUE, df |-> merged,
                                     calls |-> <<fb_name>>]
                               ELSE Called(fb_name, Continue(merged))

\* _fetch_with_fallback, the free sources from the i-th on; an exception of a
\* free source is logged and the loop goes on
RECURSIVE FreeSources(_, _, _, _, _)
FreeSources(fetch, limit, min_rows, best_df, i) ==
    IF i > Len(free_sources) THEN [df |-> best_df, calls |-> <<>>]
    ELSE LET free == fetch[free_sources[i]]
         IN  IF free.raises \/ free.df = <<>>
             THEN Called(free_sources[i],
                         FreeSources(fetch, limit, min_rows, best_df, i + 1))
             ELSE LET merged == _merge_dataframes(<<best_df, free.df>>, limit)
                  IN  IF Len(merged) >= min_rows
                      THEN [df |-> merged, calls |-> <<free_sources[i]>>]
                      ELSE Called(free_sources[i],
                                  FreeSources(fetch, limit, min_rows, merged, i + 1))

\* a frame returned, or an exception raised, after the calls made
Fetched(result, calls) == Merge(result, [calls |-> calls])

\* _fetch_with_fallback(symbol, timeframe, limit, since); fetch tells what each
\* source does in this call; calls are the sources asked, in order
_fetch_with_fallback(_adapters, _symbol_routes, symbol, timeframe, limit, fetch) ==
    LET min_rows == Min(limit, 50)
        routed == route_symbol(_adapters, _symbol_routes, symbol)
        primary_name == IF routed.raised = None THEN routed.value.name ELSE None
        primary_df == IF routed.raised # None THEN <<>>
                      ELSE IF fetch[primary_name].raises THEN <<>>
                      ELSE fetch[primary_name].df
        primary_calls == IF routed.raised = None THEN <<primary_name>> ELSE <<>>
    IN  IF primary_df # <<>> /\ Len(primary_df) >= min_rows
        THEN Fetched(Frame(primary_df), primary_calls)
        ELSE LET chain == FallbackChain(_adapters, primary_name, fetch, limit,
                                        min_rows, primary_df, 1)
                 calls == primary_calls \o chain.calls
             IN  IF chain.raises THEN Fetched(Raises, calls)
                 ELSE IF chain.done THEN Fetched(Frame(chain.df), calls)
                 ELSE IF timeframe \in {"1d", "1w"} \/ Len(chain.df) < min_rows
                 THEN LET free == FreeSources(fetch, limit, min_rows, chain.df, 1)
                      IN  Fetched(Frame(free.df), calls \o free.calls)
                 ELSE Fetched(Frame(chain.df), calls)

\* the insert that does nothing about a conflict on the unique index
MutUpsert(table, row) == table \cup {row}

\* INSERT ... ON CONFLICT (asset_id, timeframe, timestamp) DO UPDATE
Upsert(table, row) ==
    {r \in table : ~(/\ r.asset = row.asset /\ r.timeframe = row.timeframe
                     /\ r.timestamp = row.timestamp)}
    \cup {row}

\* _store_ohlcv, the loop over df.iterrows() for the rows lo..hi, in order (the
\* first half of the rows, then the second half on the table that gives)
RECURSIVE StoreRange(_, _, _, _, _, _)
StoreRange(table, df, asset, timeframe, lo, hi) ==
    IF lo > hi THEN table
    ELSE IF lo = hi
    THEN Upsert(table, Merge(df[lo], [asset |-> asset, timeframe |-> timeframe]))
    ELSE Let(StoreRange(table, df, asset, timeframe, lo, (lo + hi) \div 2),
             LAMBDA half : StoreRange(half, df, asset, timeframe,
                                      (lo + hi) \div 2 + 1, hi))

\* _store_ohlcv, the loop over df.iterrows() from the i-th row on
StoreRows(table, df, asset, timeframe, i) ==
    StoreRange(table, df, asset, timeframe, i, Len(df))

\* _store_ohlcv(df, symbol, timeframe) on the table: the count it returns and
\* the table after the commit
_store_ohlcv(table, df, symbol, timeframe) ==
    IF Upper(symbol) \notin Assets
    THEN [raised |-> None, count |-> 0, table |-> table]
    ELSE IF timeframe \notin Timeframe
    THEN [raised |-> "ValueError", count |-> 0, table |-> table]
    ELSE [raised |-> None, count |-> Len(df),
          table |-> StoreRows(table, df, Upper(symbol), timeframe, 1)]

\* ingest_ohlcv(symbol, timeframe, limit): fetch tells what each source does
\* when asked for the timeframe, daily what it does when asked for "1d" after
\* the first attempt came back empty. The result is the exception raised (or
\* None), the count returned, the table afterwards, and the frame that was
\* handed to _store_ohlcv with the timeframe it was stored as.
ingest_ohlcv(table, _adapters, _symbol_routes, symbol, timeframe, limit, fetch, daily) ==
    LET NoData == [raised |-> None, count |-> 0, table |-> table,
                   batch |-> <<>>, stored_as |-> None]
        Failed == [raised |-> "Exception", count |-> 0, table |-> table,
                   batch |-> <<>>, stored_as |-> None]
        Stored(df, tf) == Merge(_store_ohlcv(table, df, symbol, tf),
                                [batch |-> df, stored_as |-> tf])
        \* the calls of _fetch_with_fallback made: the timeframe asked for,
        \* the sources it asked and the number of rows it returned
        Attempt(tf, fetched) ==
            [timeframe |-> tf, calls |-> fetched.calls, rows |-> Len(fetched.df)]
        WithAttempts(attempts, result) == Merge(result, [attempts |-> attempts])
        first == _fetch_with_fallback(_adapters, _symbol_routes, symbol, timeframe,
                                      limit, fetch)
    IN  IF first.raises THEN WithAttempts(<<Attempt(timeframe, first)>>, Failed)
        ELSE IF first.df = <<>>
        THEN IF timeframe # "1d"
             THEN LET second == _fetch_with_fallback(_adapters, _symbol_routes, symbol,
                                                     "1d", limit, daily)
                      attempts == <<Attempt(timeframe, first), Attempt("1d", second)>>
                  IN  IF second.raises THEN WithAttempts(attempts, Failed)
                      ELSE IF second.df # <<>>
                      THEN WithAttempts(attempts, Stored(second.df, "1d"))
                      ELSE WithAttempts(attempts, NoData)
             ELSE WithAttempts(<<Attempt(timeframe, first)>>, NoData)
        ELSE WithAttempts(<<Attempt(timeframe, first)>>, Stored(first.df, timeframe))

------------------------------------------------------------------------------
(* Specification of the ingestion pipeline: adapters are registered, XAUUSD is *)
(* routed, and ingest_ohlcv is called while the sources fail or answer         *)

MaxIngests == 2   \* calls of ingest_ohlcv

XAUUSD == <<"X", "A", "U", "U", "S", "D">>
XAGUSD == <<"X", "A", "G", "U", "S", "D">>

\* the adapters of the fallback chain that get registered
IngestAdapters == {OandaAdapter, MassiveAdapter}

\* the calls made: symbol, timeframe, limit ("2h" is no member of Timeframe,
\* XAGUSD has no row in assets)
IngestCalls ==
    {<<XAUUSD, "5m", 2>>, <<XAUUSD, "1d", 2>>, <<XAGUSD, "1d", 2>>,
     <<XAUUSD, "2h", 2>>}

\* what an adapter may do in a call, and what a free source may do
AdapterAnswers ==
    {Raises, Frame(<<>>), Frame(<<Candle5(1, 10)>>),
     Frame(<<Candle5(1, 20), Candle5(2, 20), Candle5(2, 30)>>)}
StooqAnswers == {Frame(<<>>), Frame(<<Candle5(2, 40)>>)}
YahooAnswers == {Frame(<<>>), Frame(<<Candle5(3, 50)>>)}

\* what every source does in one attempt
Answers ==
    {[massive |-> m, oanda |-> o, stooq |-> st, yahoo |-> y] :
        m \in AdapterAnswers, o \in AdapterAnswers, st \in StooqAnswers,
        y \in YahooAnswers}

\* the sources _fetch_with_fallback can get candles from: the routed adapter,
\* the registered adapters of the fallback chain, the free sources
Consultable(_adapters, _symbol_routes, symbol) ==
    {_adapters[i].name : i \in
        {j \in DOMAIN _adapters :
            \/ \E k \in DOMAIN fallback_adapters : fallback_adapters[k] = _adapters[j].name
            \/ route_symbol(_adapters, _symbol_routes, symbol).value = _adapters[j]}}
    \cup {free_sources[i] : i \in DOMAIN free_sources}

\* some registered adapter raises when it is asked
SomeAdapterRaises(_adapters, fetch) ==
    \E i \in DOMAIN _adapters : fetch[_adapters[i].name].raises

\* some consultable source answers with candles
HasData(_adapters, _symbol_routes, symbol, fetch) ==
    \E src \in Consultable(_adapters, _symbol_routes, symbol) :
        ~fetch[src].raises /\ fetch[src].df # <<>>

InitIngest ==
    /\ pendPc = "idle"
    /\ ohlcv_rows = <<>>
    /\ pendStore = <<>>
    /\ pendNow = 0
    /\ fetchInput = <<>>
    /\ fetchLog = [called |-> FALSE]
    /\ mtfInput = <<>>
    /\ mtfLog = [called |-> FALSE]
    /\ scoreInput = <<>>
    /\ scoreLog = [called |-> FALSE]
    /\ lossSignal = <<>>
    /\ lossAnalysis = [called |-> FALSE]
    /\ macroPc = <<>>
    /\ memCache = None
    /\ fileCache = None
    /\ _refreshing = FALSE
    /\ bgTasks = <<>>
    /\ macroLog = [called |-> FALSE]
    /\ loopPc = <<>>
    /\ scan_count = 0
    /\ last_summary_date = None
    /\ utcNow = <<>>
    /\ cycleLog = <<>>
    /\ emitted = <<>>
    /\ lists = EmptyDict
    /\ savePc = <<>>
    /\ assigned = <<>>
    /\ apiStore = <<>>
    /\ apiLog = [called |-> FALSE]
    /\ adapters = <<>>
    /\ routes = EmptyDict
    /\ routeLog = [called |-> FALSE]
    /\ candles = {}
    /\ ingestLog = [called |-> FALSE, n |-> 0]
    /\ signals = <<>>
    /\ baseline = <<>>
    /\ scanInput = NoScan
    /\ scanLog = [event |-> "none"]
    /\ sig = EmptyDict
    /\ now = 0
    /\ lastCheck = NoCheck
    /\ store = <<>>
    /\ idCounter = 0
    /\ dbBar = 0
    /\ scanPc = <<>>
    /\ scanBar = <<>>
    /\ scanOpen = <<>>
    /\ history = <<>>
    /\ patterns = <<>>

\* one call of ingest_ohlcv
Ingest ==
    /\ ingestLog.n < MaxIngests
    /\ \E call \in IngestCalls, fetch \in Answers :
       \E retry \in {/\ call[2] # "1d"
                     /\ ~HasData(adapters, routes, call[1], fetch)} :
       \E daily \in IF retry THEN Answers ELSE {fetch} :
       \E result \in {ingest_ohlcv(candles, adapters, routes, call[1], call[2],
                                   call[3], fetch, daily)} :
           /\ candles' = result.table
           /\ ingestLog' =
                  [called |-> TRUE, n |-> ingestLog.n + 1,
                   symbol |-> call[1], timeframe |-> call[2],
                   raised |-> result.raised, count |-> result.count,
                   batch |-> result.batch, stored_as |-> result.stored_as,
                   data |-> IF HasData(adapters, routes, call[1], fetch)
                            THEN "requested"
                            ELSE IF retry /\ HasData(adapters, routes, call[1], daily)
                            THEN "daily" ELSE "none",
                   adapter_raised |-> \/ SomeAdapterRaises(adapters, fetch)
                                      \/ SomeAdapterRaises(adapters, daily),
                   replaced |-> Cardinality(candles \ result.table)]
    /\ UNCHANGED <<adapters, routes, routeLog>>
    /\ UNCHANGED <<engineVars, trackerVars, raceVars, lossVars, saveVars, loopVars, macroVars, catVars, scoreVars, mtfVars, fetchVars, pendVars>>

NextIngest ==
    \/ \E adapter \in IngestAdapters : Register(adapter)
    \/ SetRoute(XAUUSD, "massive")
    \/ Ingest

SpecIngest == InitIngest /\ [][NextIngest]_vars

------------------------------------------------------------------------------
(* Properties of the signal engine *)

\* the signals of both runs of the last scan
RanSignals == baseline \o signals

\* the extra pattern's conditions match the run's (regime, direction)
Matches(pattern) ==
    /\ Get(pattern.conditions, "regime", None) = scanInput.regime
    /\ \A i \in 1..Len(RanSignals) :
           RanSignals[i].direction = Get(pattern.conditions, "direction", None)

\* C3: every emitted signal's stored levels are ordered stop_loss < entry_price <
\* take_profit for a long and stop_loss > entry_price > take_profit for a short,
\* and risk_reward_ratio is positive and equals |take_profit - entry_price| /
\* |entry_price - stop_loss| of the stored levels within rounding
LevelsCoherent ==
    \A i \in 1..Len(signals) :
        LET s == signals[i]
            risk == Abs(s.entry_price - s.stop_loss)
            reward == Abs(s.take_profit - s.entry_price)
        IN  /\ s.direction = "long"
                => s.stop_loss < s.entry_price /\ s.entry_price < s.take_profit
            /\ s.direction = "short"
                => s.stop_loss > s.entry_price /\ s.entry_price > s.take_profit
            /\ s.risk_reward_ratio > 0
            /\ 2 * Abs(s.risk_reward_ratio * risk - 100 * reward) <= risk

\* C6: no emitted long signal has a snapshot RSI above 72 and no emitted short
\* signal has a snapshot RSI below 28
NoOverextendedSignal ==
    \A i \in 1..Len(signals) :
        LET rsi == Snap(signals[i], "rsi", "value", 500)
        IN  /\ signals[i].direction = "long" => rsi <= 720
            /\ signals[i].direction = "short" => rsi >= 280

\* a long run with RSI 72.1 was blocked
WitnessOverextended ==
    /\ scanLog.event = "signal_blocked_overbought"
    /\ scanLog.rsi = 721
    /\ signals = <<>>

\* C7: with one more active loss pattern matching the run's (regime, direction),
\* the run emits nothing when the run without it emits nothing, and an emitted
\* signal's confidence is at most that of the run without it
MatchingPatternNeverHelps ==
    \A k \in 1..Len(scanInput.extra) :
        Matches(scanInput.extra[k])
        => /\ baseline = <<>> => signals = <<>>
           /\ \A i \in 1..Len(signals), j \in 1..Len(baseline) :
                  signals[i].confidence <= baseline[j].confidence

\* both runs emitted a signal and the matching extra pattern halved its confidence
WitnessMatchingPattern ==
    /\ scanInput.extra # <<>>
    /\ Matches(scanInput.extra[1])
    /\ baseline # <<>>
    /\ signals # <<>>
    /\ 2 * signals[1].confidence = baseline[1].confidence

\* C9: every emitted signal satisfies the threshold row of its asset class and
\* timeframe: score on the right side of min_score, confidence at least
\* min_confidence and within [0, 1]; a scan that ended on a neutral score or on
\* a confidence below min_confidence emitted nothing
ThresholdRowSatisfied ==
    /\ \A i \in 1..Len(signals) :
           LET s == signals[i]
               row == _get_thresholds(s.timeframe, s.symbol)
           IN  /\ s.direction \in {"long", "short"}
               /\ s.direction = "long" => s.composite_score >= 10 * row.min_score
               /\ s.direction = "short"
                   => s.composite_score <= 10 * (100 - row.min_score)
               /\ s.confidence >= 10000 * row.min_confidence
               /\ s.confidence >= 0 /\ s.confidence <= 1000000
    /\ scanLog.event = "signal_score_neutral"
           => /\ signals = <<>>
              /\ scanLog.composite_score < 10 * scanLog.threshold
              /\ scanLog.composite_score > 10 * (100 - scanLog.threshold)
    /\ scanLog.event = "signal_below_confidence"
           => /\ signals = <<>>
              /\ scanLog.confidence < 10000 * scanLog.threshold

\* a signal was emitted with a confidence less than 0.05 above min_confidence
WitnessThresholdRow ==
    \E i \in 1..Len(signals) :
        LET s == signals[i]
            row == _get_thresholds(s.timeframe, s.symbol)
        IN  s.confidence < 10000 * (row.min_confidence + 5)

------------------------------------------------------------------------------
(* Properties of the outcome tracker *)

StatusPaths ==
    {<<"pending", "active">>, <<"pending", "expired">>,
     <<"active", "win">>, <<"active", "loss">>}

ClosedStatuses == {"win", "loss", "expired"}

Mfe(signal) == Get(signal, "max_favorable", 0)
Mae(signal) == Get(signal, "max_adverse", 0)

\* C1: a signal starts pending and every outcome check either keeps its status
\* or moves it along pending -> active, pending -> expired, active -> win or
\* active -> loss
StatusFollowsPath ==
    [][/\ ~lastCheck.called => sig.status = "pending"
       /\ sig'.status = sig.status \/ <<sig.status, sig'.status>> \in StatusPaths]_vars

\* an active signal was closed as a win by a check made after its expiry time
WitnessStatusPath ==
    /\ lastCheck.called
    /\ lastCheck.status = "active"
    /\ sig.status = "win"
    /\ sig.closed_at > sig.expires_at

\* C4: across successive outcome checks the stored max_favorable and
\* max_adverse never decrease and are never negative
ExcursionsNeverDecrease ==
    [][/\ Mfe(sig') >= Mfe(sig) /\ Mfe(sig') >= 0
       /\ Mae(sig') >= Mae(sig) /\ Mae(sig') >= 0]_vars

\* an active signal with both excursions stored was checked again against a
\* candle that did not exceed them
WitnessExcursions ==
    /\ sig.status = "active"
    /\ Mfe(sig) > 0
    /\ Mae(sig) > 0
    /\ lastCheck.called
    /\ lastCheck.status = "active"
    /\ lastCheck.none

\* C5: an outcome check of a signal whose status is win, loss or expired returns
\* no update and leaves the signal as it was
ClosedSignalUntouched ==
    lastCheck.called /\ lastCheck.status \in ClosedStatuses
        => lastCheck.none /\ lastCheck.same

\* a signal closed as a loss was checked again after its expiry time
WitnessClosedCheck ==
    /\ lastCheck.called
    /\ lastCheck.status = "loss"
    /\ now > sig.expires_at
    /\ sig.closed_at < sig.expires_at

LossTags ==
    {"regime_mismatch", "overextended", "low_confluence", "weak_volume",
     "against_trend", "false_breakout", "news_event"}

NoPredicateHit(signal) ==
    \A i \in 1..Len(LossPredicates(signal)) : ~LossPredicates(signal)[i].hit

------------------------------------------------------------------------------
(* Properties of the loss-learning analyzer *)

\* positions of the completed signals of the list
CompletedAt == {i \in 1..Len(history) : history[i].status \in {"win", "loss"}}

\* positions of the last ANALYSIS_WINDOW completed signals
WindowAt ==
    {i \in CompletedAt : Cardinality({j \in CompletedAt : j >= i}) <= ANALYSIS_WINDOW}

\* the losses of primary category cat among them
WindowLosses(cat) ==
    Cardinality({i \in WindowAt : /\ history[i].status = "loss"
                                  /\ history[i].loss_category = cat})

\* C8: every active pattern's category is the primary category of at least 3
\* losses among the last 50 completed signals, its frequency is that number, and
\* a category with fewer than 3 such losses has no pattern
PatternsAreFrequent ==
    /\ \A r \in 1..Len(patterns) :
           /\ WindowLosses(patterns[r].category) >= 3
           /\ patterns[r].frequency = WindowLosses(patterns[r].category)
    /\ \A cat \in LossTags \cup {"unknown"} :
           WindowLosses(cat) < 3
               => \A r \in 1..Len(patterns) : patterns[r].category # cat

\* more than 50 completed signals, a pattern is active, and a category with three
\* losses in the list has fewer than three in the window
WitnessPatterns ==
    /\ Cardinality(CompletedAt) > ANALYSIS_WINDOW
    /\ Len(patterns) > 0
    /\ \E cat \in LossTags \cup {"unknown"} :
           /\ WindowLosses(cat) < 3
           /\ Cardinality({i \in CompletedAt : /\ history[i].status = "loss"
                                               /\ history[i].loss_category = cat}) >= 3

------------------------------------------------------------------------------
(* Properties of overlapping scans *)

\* C2: in the list no signal's status ever regresses (each change follows
\* pending -> active -> win or loss, or pending -> expired) and a closed signal
\* is never overwritten
StoredStatusNeverRegresses ==
    [][\A i \in 1..Len(store) :
           /\ \/ store'[i].status = store[i].status
              \/ <<store[i].status, store'[i].status>> \in StatusPaths
           /\ store[i].status \in ClosedStatuses => store'[i] = store[i]]_vars

------------------------------------------------------------------------------
(* Properties of the outcome tracker: expiry and closing *)

OutcomeKeys == {"exit_price", "outcome_pnl", "outcome_pnl_pct"}

\* C11: a pending signal checked at a time later than its expires_at becomes
\* expired with closed_at set to the time of the check and with exit_price,
\* outcome_pnl and outcome_pnl_pct left unset, whatever the candle is
PendingPastExpiryExpires ==
    [][(sig.status = "pending" /\ now > sig.expires_at /\ now' = now)
          => /\ sig'.status = "expired"
             /\ "closed_at" \in DOMAIN sig' /\ sig'.closed_at = now
             /\ OutcomeKeys \cap DOMAIN sig' = {}
             /\ "triggered_at" \notin DOMAIN sig']_vars

\* a pending signal was checked after its expiry against a candle that touches
\* its entry price, and it is expired
WitnessExpiredDespiteTrigger ==
    /\ lastCheck.called
    /\ lastCheck.status = "pending"
    /\ lastCheck.hit.entry
    /\ sig.status = "expired"
    /\ sig.closed_at > sig.expires_at

\* C12: an active signal checked against a candle that reaches exactly one of
\* its levels is closed as a win at take_profit with outcome_pnl
\* |take_profit - entry_price|, or as a loss at stop_loss with outcome_pnl
\* -|entry_price - stop_loss|, closed_at set; a candle that reaches neither
\* level leaves it active
ActiveClosesAtLevel ==
    [][(sig.status = "active" /\ lastCheck'.called /\ now' = now /\ sig' # sig)
          => LET tp == lastCheck'.hit.target
                 sl == lastCheck'.hit.stop
             IN  /\ (tp /\ ~sl) =>
                        /\ sig'.status = "win"
                        /\ sig'.exit_price = sig.take_profit
                        /\ sig'.outcome_pnl = Abs(sig.take_profit - sig.entry_price)
                        /\ sig'.closed_at = now
                 /\ (sl /\ ~tp) =>
                        /\ sig'.status = "loss"
                        /\ sig'.exit_price = sig.stop_loss
                        /\ sig'.outcome_pnl = -Abs(sig.entry_price - sig.stop_loss)
                        /\ sig'.closed_at = now
                 /\ (~tp /\ ~sl) => sig'.status = "active"]_vars

\* an active short was closed as a loss by a candle whose high reached its stop
\* and whose low stayed above its target, after a favourable excursion
WitnessClosedAtStop ==
    /\ lastCheck.called
    /\ lastCheck.status = "active"
    /\ sig.direction = "short"
    /\ sig.status = "loss"
    /\ lastCheck.hit.stop /\ ~lastCheck.hit.target
    /\ sig.max_favorable > 0
    /\ sig.outcome_pnl < 0

------------------------------------------------------------------------------
(* Properties of the ingestion pipeline *)

\* C13: ingest_ohlcv never raises because an adapter failed: whatever the
\* adapters do (raise, return nothing, be unregistered, the routing of the
\* symbol failing), a call with a timeframe of the enum returns the number of
\* rows it wrote from the sources that answered, and 0 when no source answered
IngestSurvivesAdapterFailures ==
    (ingestLog.called /\ ingestLog.timeframe \in Timeframe) =>
        /\ ingestLog.raised = None
        /\ ingestLog.count =
               IF ingestLog.symbol \in Assets THEN Len(ingestLog.batch) ELSE 0
        /\ ingestLog.data = "none" <=> ingestLog.batch = <<>>
        /\ ingestLog.data = "none" => ingestLog.count = 0
        /\ ingestLog.data = "requested" => ingestLog.stored_as = ingestLog.timeframe
        /\ ingestLog.data = "daily" => ingestLog.stored_as = "1d"

\* the routing of the symbol failed, a registered adapter raised, and the call
\* still returned the rows of a source that answered
WitnessIngestDespiteFailures ==
    /\ ingestLog.called
    /\ route_symbol(adapters, routes, ingestLog.symbol).raised = "KeyError"
    /\ adapters # <<>>
    /\ ingestLog.adapter_raised
    /\ ingestLog.raised = None
    /\ ingestLog.count > 0

\* the rows of table with the key of row
SameKey(table, row) ==
    {r \in table : /\ r.asset = row.asset /\ r.timeframe = row.timeframe
                   /\ r.timestamp = row.timestamp}

\* the rows a stored batch stands for: of the candles of one timestamp the last
WrittenRows(log) ==
    {Merge(log.batch[i], [asset |-> log.symbol, timeframe |-> log.stored_as]) :
        i \in {j \in DOMAIN log.batch :
                  \A k \in DOMAIN log.batch :
                      k > j => log.batch[k].timestamp # log.batch[j].timestamp}}

\* C14: after every ingest_ohlcv call the table holds at most one row per
\* (asset, timeframe, timestamp); a row written for an existing key carries the
\* values written last, every other row is as it was, and a call that stores
\* the batch of the call before it leaves the table unchanged
CandleWritesIdempotent ==
    [][ingestLog'.n # ingestLog.n =>
          /\ \A r \in candles' : SameKey(candles', r) = {r}
          /\ ingestLog'.count > 0 =>
                 /\ WrittenRows(ingestLog') \subseteq candles'
                 /\ \A r \in candles' \ WrittenRows(ingestLog') : r \in candles
                 /\ \A r \in candles :
                        SameKey(WrittenRows(ingestLog'), r) = {} => r \in candles'
          /\ ingestLog'.count = 0 => candles' = candles
          /\ (/\ ingestLog.called /\ ingestLog.count > 0 /\ ingestLog'.count > 0
              /\ ingestLog'.batch = ingestLog.batch
              /\ ingestLog'.stored_as = ingestLog.stored_as
              /\ ingestLog'.symbol = ingestLog.symbol) => candles' = candles]_vars

\* the second call overwrote candles of the first with other values, from a
\* batch that holds one timestamp twice
WitnessCandleOverwritten ==
    /\ ingestLog.called
    /\ ingestLog.n = 2
    /\ ingestLog.replaced > 0
    /\ Len(ingestLog.batch) > Cardinality(WrittenRows(ingestLog))


------------------------------------------------------------------------------
(* Specification of the two signal stores: the Redis store of signal_store.py, *)
(* written by the background scans of several processes, and the list          *)
(* _signal_store of api/v1/scalper.py, written and read by the API endpoints   *)

MaxSaves == 3      \* calls of signal_store.save_signal
MaxApiSaves == 1   \* calls of the API's _save_signal

\* the processes that run _async_scan: the Celery worker and the scanner loop
Savers == {"celery", "loop"}

SaveSymbols == {XAUUSD, BTCUSD}

\* a signal as the scan hands it to a store
NewSignal(symbol) == [symbol |-> symbol, status |-> "pending"]

\* _SIGNALS_KEY.format(symbol=signal.get("symbol", "XAUUSD").upper())
SignalsKey(signal) == Upper(Get(signal, "symbol", XAUUSD))

\* r.rpush(key, value): the key is created when it does not exist
RPush(_lists, key, value) ==
    IF key \in DOMAIN _lists
    THEN [_lists EXCEPT ![key] = Append(@, value)]
    ELSE (key :> <<value>>) @@ _lists

\* r.delete(key)
Delete(_lists, key) == [k \in DOMAIN _lists \ {key} |-> _lists[k]]

\* r.lrange(key, 0, -1): the empty list for a key that does not exist
LRange(_lists, key) == IF key \in DOMAIN _lists THEN _lists[key] ELSE <<>>

\* the API's _get_signals(symbol=symbol) on its list _signal_store
_get_signals(_signal_store, symbol) ==
    SelectSeq(_signal_store, LAMBDA s : Get(s, "symbol", None) = Upper(symbol))

\* the API's _save_signal(signal) on its list _signal_store
_save_signal(_signal_store, signal) ==
    Append(_signal_store, Merge(signal, [id |-> Len(_signal_store) + 1]))

InitStore ==
    /\ pendPc = "idle"
    /\ ohlcv_rows = <<>>
    /\ pendStore = <<>>
    /\ pendNow = 0
    /\ fetchInput = <<>>
    /\ fetchLog = [called |-> FALSE]
    /\ mtfInput = <<>>
    /\ mtfLog = [called |-> FALSE]
    /\ scoreInput = <<>>
    /\ scoreLog = [called |-> FALSE]
    /\ lossSignal = <<>>
    /\ lossAnalysis = [called |-> FALSE]
    /\ macroPc = <<>>
    /\ memCache = None
    /\ fileCache = None
    /\ _refreshing = FALSE
    /\ bgTasks = <<>>
    /\ macroLog = [called |-> FALSE]
    /\ loopPc = <<>>
    /\ scan_count = 0
    /\ last_summary_date = None
    /\ utcNow = <<>>
    /\ cycleLog = <<>>
    /\ emitted = <<>>
    /\ lists = EmptyDict
    /\ savePc = [p \in Savers |-> [pc |-> "idle"]]
    /\ assigned = <<>>
    /\ apiStore = <<>>
    /\ apiLog = [called |-> FALSE]
    /\ adapters = <<>>
    /\ routes = EmptyDict
    /\ routeLog = [called |-> FALSE]
    /\ candles = {}
    /\ ingestLog = [called |-> FALSE]
    /\ signals = <<>>
    /\ baseline = <<>>
    /\ scanInput = [called |-> FALSE]
    /\ scanLog = [called |-> FALSE]
    /\ sig = [status |-> "none"]
    /\ now = 0
    /\ lastCheck = [called |-> FALSE]
    /\ store = <<>>
    /\ idCounter = 0
    /\ dbBar = [low |-> 0, close |-> 0, high |-> 0]
    /\ scanPc = <<>>
    /\ scanBar = <<>>
    /\ scanOpen = <<>>
    /\ history = <<>>
    /\ patterns = <<>>

\* save_signal, first command: signal_id = r.incr(_COUNTER_KEY) and
\* signal["id"] = signal_id
SaveIncr(p, symbol) ==
    /\ savePc[p].pc = "idle"
    /\ idCounter < MaxSaves
    /\ idCounter' = Incr(idCounter)
    /\ assigned' = Append(assigned, Incr(idCounter))
    /\ savePc' = [savePc EXCEPT ![p] =
                    [pc |-> "rpush",
                     signal |-> Merge(NewSignal(symbol), [id |-> Incr(idCounter)])]]
    /\ UNCHANGED <<lists, apiStore, apiLog>>
    /\ UNCHANGED <<store, dbBar, scanPc, scanBar, scanOpen>>
    /\ UNCHANGED <<engineVars, trackerVars, lossVars, dataVars, loopVars, macroVars, catVars, scoreVars, mtfVars, fetchVars, pendVars>>

\* save_signal, second command: r.rpush(key, json.dumps(signal)) (and the
\* r.expire(key, _TTL) that restarts the key's time to live)
SavePush(p) ==
    /\ savePc[p].pc = "rpush"
    /\ lists' = RPush(lists, SignalsKey(savePc[p].signal), savePc[p].signal)
    /\ savePc' = [savePc EXCEPT ![p] = [pc |-> "idle"]]
    /\ UNCHANGED <<assigned, apiStore, apiLog>>
    /\ UNCHANGED <<engineVars, trackerVars, raceVars, lossVars, dataVars, loopVars, macroVars, catVars, scoreVars, mtfVars, fetchVars, pendVars>>

\* clear_signals(symbol), and the key's expiry after _TTL without a save: the
\* list goes, the counter key (which has no time to live) stays
ClearSignals(symbol) ==
    /\ Upper(symbol) \in DOMAIN lists
    /\ lists' = Delete(lists, Upper(symbol))
    /\ UNCHANGED <<savePc, assigned, apiStore, apiLog>>
    /\ UNCHANGED <<engineVars, trackerVars, raceVars, lossVars, dataVars, loopVars, macroVars, catVars, scoreVars, mtfVars, fetchVars, pendVars>>

\* GET /scalper/{symbol}/scan of the API, lines 176-179: every signal of the
\* scan goes to the API's own list
ApiScan(symbol) ==
    /\ Len(apiStore) < MaxApiSaves
    /\ apiStore' = _save_signal(apiStore, NewSignal(Upper(symbol)))
    /\ UNCHANGED <<lists, savePc, assigned, apiLog>>
    /\ UNCHANGED <<engineVars, trackerVars, raceVars, lossVars, dataVars, loopVars, macroVars, catVars, scoreVars, mtfVars, fetchVars, pendVars>>

\* GET /scalper/{symbol}/signals of the API without filters; the log keeps the
\* response next to the symbol's Redis list at the time of the call
ApiGetSignals(symbol) ==
    /\ apiLog' = [called |-> TRUE,
                  symbol |-> Upper(symbol),
                  signals |-> _get_signals(apiStore, symbol),
                  total |-> Len(_get_signals(apiStore, symbol)),
                  redis |-> LRange(lists, Upper(symbol))]
    /\ UNCHANGED <<lists, savePc, assigned, apiStore>>
    /\ UNCHANGED <<engineVars, trackerVars, raceVars, lossVars, dataVars, loopVars, macroVars, catVars, scoreVars, mtfVars, fetchVars, pendVars>>

NextStore ==
    \/ \E p \in Savers, symbol \in SaveSymbols : SaveIncr(p, symbol)
    \/ \E p \in Savers : SavePush(p)
    \/ \E symbol \in SaveSymbols : ClearSignals(symbol)
    \/ \E symbol \in SaveSymbols : ApiScan(symbol)
    \/ \E symbol \in SaveSymbols : ApiGetSignals(symbol)

SpecStore == InitStore /\ [][NextStore]_vars

\* every signal the Redis lists hold, as <<key, index>> positions
StoredAt == {<<k, i>> \in (DOMAIN lists) \X (1..MaxSaves) : i <= Len(lists[k])}

\* C15: every id save_signal assigns is greater than every id assigned before
\* it, whichever process asked and in whatever order the calls interleave, and
\* no two signals in the Redis lists, of one symbol or of two, share an id
SignalIdsGloballyMonotonic ==
    /\ \A i, j \in 1..Len(assigned) : i < j => assigned[i] < assigned[j]
    /\ \A a, b \in StoredAt :
           a # b => lists[a[1]][a[2]].id # lists[b[1]][b[2]].id
    /\ \A p, q \in Savers :
           (p # q /\ savePc[p].pc = "rpush" /\ savePc[q].pc = "rpush")
               => savePc[p].signal.id # savePc[q].signal.id

\* two processes saved at once and the later id reached a list first: a list
\* holds ids out of order, and another symbol's list holds an id as well
WitnessInterleavedSaves ==
    /\ \E k \in DOMAIN lists : \E i, j \in 1..Len(lists[k]) :
           i < j /\ lists[k][i].id > lists[k][j].id
    /\ \E k, l \in DOMAIN lists : k # l /\ Len(lists[k]) > 0 /\ Len(lists[l]) > 0
    /\ Len(assigned) = MaxSaves

\* C20: what GET /scalper/{symbol}/signals returns includes every signal the
\* background scans have saved for the symbol
ScanSignalsVisibleInApi ==
    apiLog.called =>
        \A i \in 1..Len(apiLog.redis) :
            \E j \in 1..Len(apiLog.signals) : apiLog.signals[j] = apiLog.redis[i]


\* the adapters of the registry whose market type is one of market_types
RegisteredOf(market_types) ==
    {adapters[i] : i \in {j \in DOMAIN adapters : adapters[j].market_type \in market_types}}

\* the symbol's base is in the crypto set
CryptoSymbol(symbol) ==
    \/ Len(symbol) >= 5 /\ Prefix(symbol, 3) \in _CRYPTO_BASES
    \/ \E base \in _CRYPTO_BASES : StartsWith(symbol, base)

\* a 6-letter symbol whose first three letters are a known fiat code
ForexSymbol(symbol) ==
    Len(symbol) = 6 /\ IsAlpha(symbol) /\ Prefix(symbol, 3) \in _FOREX_BASES

\* what a call of route_symbol owes its caller under the rule order
RuleOrderKept(symbol, result) ==
    LET explicit == symbol \in DOMAIN routes
        metal == symbol \in GoldSymbols /\ RegisteredOf({"commodity", "forex"}) # {}
        crypto == CryptoSymbol(symbol) /\ RegisteredOf({"crypto"}) # {}
        forex == ForexSymbol(symbol) /\ RegisteredOf({"forex"}) # {}
    IN  /\ (explicit /\ result.raised = None) => result.value.name = routes[symbol]
        /\ (~explicit /\ metal) =>
               result = Return(FirstOfMarket(adapters, {"commodity", "forex"})[1])
        /\ (~explicit /\ ~metal /\ crypto) =>
               result = Return(FirstOfMarket(adapters, {"crypto"})[1])
        /\ (~explicit /\ ~metal /\ ~crypto /\ forex) =>
               result = Return(FirstOfMarket(adapters, {"forex"})[1])
        /\ (~explicit /\ ~metal /\ ~crypto /\ ~forex) => result.raised = "ValueError"

\* C16: route_symbol returns the adapter of the first rule that matches
\* (explicit route of the upper-cased symbol, then gold/silver, then crypto
\* base, then 6-letter fiat pair) and fails with ValueError, and with no other
\* error, when no rule yields an adapter
RouteFollowsRuleOrder ==
    [][routeLog' # routeLog =>
          /\ routeLog'.result.raised \in {None, "ValueError"}
          /\ RuleOrderKept(Upper(routeLog'.symbol), routeLog'.result)]_vars


\* the keys an outcome update may set or change
UpdateKeys ==
    {"status", "triggered_at", "closed_at", "exit_price", "outcome_pnl",
     "outcome_pnl_pct", "max_favorable", "max_adverse"}

\* the keys the loss analysis adds
LossKeys == {"loss_category", "loss_analysis"}

\* the keys in which two dicts differ: set in one only, or set to other values
ChangedKeys(before, after) ==
    {k \in DOMAIN before \cup DOMAIN after :
        \/ k \notin DOMAIN before
        \/ k \notin DOMAIN after
        \/ before[k] # after[k]}

\* C17: an outcome check changes a stored signal in no key but status,
\* triggered_at, closed_at, exit_price, outcome_pnl, outcome_pnl_pct,
\* max_favorable and max_adverse, and loss_category and loss_analysis when the
\* check turns the signal into a loss; every other key keeps its value
OutcomeChangesOnlyOutcomeKeys ==
    [][ChangedKeys(sig, sig') \subseteq
           UpdateKeys \cup (IF sig'.status = "loss" /\ sig.status # "loss"
                            THEN LossKeys ELSE {})]_vars

\* a signal was triggered and then stopped out: the checks set its outcome keys
\* and attached its loss analysis
WitnessLossAnnotated ==
    /\ lastCheck.called
    /\ sig.status = "loss"
    /\ LossKeys \subseteq DOMAIN sig
    /\ UpdateKeys \subseteq DOMAIN sig
    /\ sig.loss_category = sig.loss_analysis.category


------------------------------------------------------------------------------
(* Specification of the in-process scanner loop (main.py, _background_scanner) *)

MaxCycles == 3   \* cycles the loop starts
MaxDays == 2     \* UTC dates the clock goes through
MaxPairs == 1    \* forex pairs kept of the seven of FOREX_PAIRS

DAILY_SUMMARY_HOUR == 22

FOREX_PAIRS ==
    SubSeq(<<"EURUSD", "GBPUSD", "USDJPY", "AUDUSD", "USDCAD", "NZDUSD", "USDCHF">>,
           1, MaxPairs)

\* the symbols a cycle scans: gold and bitcoin, and the forex pairs when
\* scan_count % 2 == 0
CycleSymbols(count) ==
    <<"XAUUSD", "BTCUSD">> \o (IF count % 2 = 0 THEN FOREX_PAIRS ELSE <<>>)

\* all_symbols of the summary pass
all_symbols == <<"XAUUSD", "BTCUSD">> \o FOREX_PAIRS

\* the hours the clock shows around the summary hour
Hours == {21, 22, 23}
Clock(date, hour) == [date |-> date, hour |-> hour]

\* the clock some time later: the same hour, or one of the next two
Later(clock) ==
    {c \in {Clock(d, h) : d \in 1..MaxDays, h \in Hours} :
        LET slots == 3 * (c.date - clock.date) + (c.hour - clock.hour)
        IN  slots \in 0..2}

\* how an awaited call ends: it returns, it raises an exception, or the task
\* is cancelled while it waits
Outcomes == {"ok", "Exception", "CancelledError"}

\* the except clauses taken as catching nothing
MutCaughtByExceptException(outcome) == FALSE

\* "except Exception" catches it: CancelledError derives from BaseException
CaughtByExceptException(outcome) == outcome = "Exception"

\* now.hour == DAILY_SUMMARY_HOUR and last_summary_date != today
SummaryDue(clock, last) == clock.hour = DAILY_SUMMARY_HOUR /\ last # {clock.date}

Pc(pc, i) == [pc |-> pc, i |-> i]
NoSummaries == [k \in (1..MaxDays) \X {all_symbols[i] : i \in DOMAIN all_symbols} |-> 0]

InitScanner ==
    /\ pendPc = "idle"
    /\ ohlcv_rows = <<>>
    /\ pendStore = <<>>
    /\ pendNow = 0
    /\ fetchInput = <<>>
    /\ fetchLog = [called |-> FALSE]
    /\ mtfInput = <<>>
    /\ mtfLog = [called |-> FALSE]
    /\ scoreInput = <<>>
    /\ scoreLog = [called |-> FALSE]
    /\ lossSignal = <<>>
    /\ lossAnalysis = [called |-> FALSE]
    /\ macroPc = <<>>
    /\ memCache = None
    /\ fileCache = None
    /\ _refreshing = FALSE
    /\ bgTasks = <<>>
    /\ macroLog = [called |-> FALSE]
    /\ loopPc = Pc("startup", 0)
    /\ scan_count = 0
    /\ last_summary_date = {}
    /\ utcNow \in {Clock(1, h) : h \in Hours}
    /\ cycleLog = [scanned |-> 0, failed |-> 0]
    /\ emitted = NoSummaries
    /\ lists = EmptyDict
    /\ savePc = <<>>
    /\ assigned = <<>>
    /\ apiStore = <<>>
    /\ apiLog = [called |-> FALSE]
    /\ adapters = <<>>
    /\ routes = EmptyDict
    /\ routeLog = [called |-> FALSE]
    /\ candles = {}
    /\ ingestLog = [called |-> FALSE]
    /\ signals = <<>>
    /\ baseline = <<>>
    /\ scanInput = [called |-> FALSE]
    /\ scanLog = [called |-> FALSE]
    /\ sig = [status |-> "none"]
    /\ now = 0
    /\ lastCheck = [called |-> FALSE]
    /\ store = <<>>
    /\ idCounter = 0
    /\ dbBar = [low |-> 0, close |-> 0, high |-> 0]
    /\ scanPc = <<>>
    /\ scanBar = <<>>
    /\ scanOpen = <<>>
    /\ history = <<>>
    /\ patterns = <<>>

otherVars ==
    <<engineVars, trackerVars, raceVars, lossVars, dataVars, saveVars, macroVars,
      catVars, scoreVars, mtfVars, fetchVars, pendVars>>

\* the startup grace (await asyncio.sleep(30)) and the seeding of forex data,
\* whose failures are logged; the first cycle begins
Startup(outcome) ==
    /\ loopPc.pc = "startup"
    /\ outcome \in {"ok", "CancelledError"}
    /\ loopPc' = IF outcome = "ok" THEN Pc("scan", 0) ELSE Pc("cancelled", 0)
    /\ UNCHANGED <<scan_count, last_summary_date, utcNow, cycleLog, emitted, otherVars>>

\* await _async_scan(symbol) for the next symbol of the cycle, inside the
\* try/except of the for loop; after the last symbol scan_count += 1 and the
\* test for the daily summary
ScanSymbol(outcome) ==
    /\ loopPc.pc = "scan"
    /\ IF outcome = "ok" \/ CaughtByExceptException(outcome)
       THEN /\ cycleLog' = [scanned |-> cycleLog.scanned + 1,
                            failed |-> cycleLog.failed + (IF outcome = "ok" THEN 0 ELSE 1)]
            /\ IF loopPc.i + 1 < Len(CycleSymbols(scan_count))
               THEN /\ loopPc' = Pc("scan", loopPc.i + 1)
                    /\ UNCHANGED scan_count
               ELSE /\ scan_count' = scan_count + 1
                    /\ loopPc' = IF SummaryDue(utcNow, last_summary_date)
                                 THEN Pc("summary", 0) ELSE Pc("sleep", 0)
       ELSE /\ loopPc' = IF outcome = "CancelledError"
                         THEN Pc("cancelled", 0) ELSE Pc("crashed", 0)
            /\ UNCHANGED <<scan_count, cycleLog>>
    /\ UNCHANGED <<last_summary_date, utcNow, emitted, otherVars>>

\* the summary pass for the next symbol of all_symbols: get_signals,
\* compute_analytics and await notify_summary.  The symbol has no signals
\* ("none"), its summary is sent ("ok"), or one of the calls raises before
\* anything is sent.  After the last symbol last_summary_date = today.
SummarySymbol(outcome) ==
    /\ loopPc.pc = "summary"
    /\ outcome \in Outcomes \cup {"none"}
    /\ emitted' = IF outcome = "ok"
                  THEN [emitted EXCEPT ![<<utcNow.date, all_symbols[loopPc.i + 1]>>] = @ + 1]
                  ELSE emitted
    /\ IF outcome \in {"ok", "none"}
       THEN IF loopPc.i + 1 < Len(all_symbols)
            THEN /\ loopPc' = Pc("summary", loopPc.i + 1)
                 /\ UNCHANGED last_summary_date
            ELSE /\ last_summary_date' = {utcNow.date}
                 /\ loopPc' = Pc("sleep", 0)
       ELSE /\ loopPc' = IF CaughtByExceptException(outcome) THEN Pc("sleep", 0)
                         ELSE IF outcome = "CancelledError" THEN Pc("cancelled", 0)
                         ELSE Pc("crashed", 0)
            /\ UNCHANGED last_summary_date
    /\ UNCHANGED <<scan_count, utcNow, cycleLog, otherVars>>

\* await asyncio.sleep(SCAN_INTERVAL), outside the try: time passes and the
\* next cycle begins, or the task is cancelled while it waits
Sleep(outcome) ==
    /\ loopPc.pc = "sleep"
    /\ outcome \in {"ok", "CancelledError"}
    /\ IF outcome = "ok"
       THEN /\ scan_count < MaxCycles
            /\ loopPc' = Pc("scan", 0)
            /\ utcNow' \in Later(utcNow)
            /\ cycleLog' = [scanned |-> 0, failed |-> 0]
       ELSE /\ loopPc' = Pc("cancelled", 0)
            /\ UNCHANGED <<utcNow, cycleLog>>
    /\ UNCHANGED <<scan_count, last_summary_date, emitted, otherVars>>

NextScanner ==
    \/ \E outcome \in Outcomes : Startup(outcome)
    \/ \E outcome \in Outcomes : ScanSymbol(outcome)
    \/ \E outcome \in Outcomes \cup {"none"} : SummarySymbol(outcome)
    \/ \E outcome \in Outcomes : Sleep(outcome)

SpecScanner == InitScanner /\ [][NextScanner]_vars


\* C18: an exception in the scan of one symbol does not stop the scanner loop:
\* the loop goes on to the cycle's next symbol, a cycle ends with every one of
\* its symbols scanned and the cycle counter one higher, the sleep is followed
\* by the next cycle, and nothing but the cancellation of the task ends the loop
ScanFailureDoesNotStopLoop ==
    [][/\ (loopPc.pc = "scan" /\ cycleLog'.failed > cycleLog.failed) =>
              \/ loopPc' = Pc("scan", loopPc.i + 1)
              \/ /\ loopPc'.pc \in {"summary", "sleep"}
                 /\ loopPc.i + 1 = Len(CycleSymbols(scan_count))
       /\ (loopPc.pc = "scan" /\ loopPc'.pc \in {"summary", "sleep"}) =>
              /\ cycleLog'.scanned = Len(CycleSymbols(scan_count))
              /\ scan_count' = scan_count + 1
       /\ (loopPc.pc = "sleep" /\ loopPc' # loopPc) =>
              loopPc' \in {Pc("scan", 0), Pc("cancelled", 0)}
       /\ loopPc'.pc # "crashed"]_vars

\* the first cycle is over and the loop sleeps: two of its scans failed, every
\* symbol of the cycle was scanned all the same, and the counter advanced
WitnessCycleSurvivedFailure ==
    /\ loopPc.pc = "sleep"
    /\ scan_count = 1
    /\ cycleLog.failed = 2
    /\ cycleLog.scanned = Len(CycleSymbols(0))

\* C19: a daily summary is sent only in a cycle that reads UTC hour 22; once a
\* summary pass has completed for a date no summary is sent on that date again,
\* so that no symbol gets more than one summary per UTC date; and a pass that
\* fails part-way leaves the date unmarked
DailySummaryOncePerDate ==
    [][/\ emitted' # emitted =>
              /\ utcNow.hour = DAILY_SUMMARY_HOUR
              /\ last_summary_date # {utcNow.date}
       /\ \A k \in DOMAIN emitted : emitted'[k] <= 1
       /\ last_summary_date' # last_summary_date =>
              /\ loopPc = Pc("summary", Len(all_symbols) - 1)
              /\ last_summary_date' = {utcNow.date}]_vars


------------------------------------------------------------------------------
(* Specification of the macro summary cache (data/macro_adapter.py): callers   *)
(* of get_gold_macro_summary and background refresh tasks on the singleton     *)
(* macro_adapter, all on one event loop                                        *)

MaxTasks == 2   \* background refresh tasks alive at a time

Callers == {1, 2}
Tasks == 1..MaxTasks

\* _is_cached("gold_summary"): the key has a time stamp younger than 6 hours
_is_cached(cache) == cache = "fresh"

\* file_data and len(file_data) > 1, from _load_file_cache: the file's summary
\* whatever its age
FileData(file) == file # "none"

\* age_hours > 6 and not self._refreshing
RefreshDue(file, refreshing) == file = "stale" /\ ~refreshing

\* the coroutines that are inside _fetch_fresh_summary
InFlight ==
    Cardinality({c \in Callers : macroPc[c] = "fetching"})
    + Cardinality({t \in Tasks : bgTasks[t] = "fetching"})

InitMacro ==
    /\ pendPc = "idle"
    /\ ohlcv_rows = <<>>
    /\ pendStore = <<>>
    /\ pendNow = 0
    /\ fetchInput = <<>>
    /\ fetchLog = [called |-> FALSE]
    /\ mtfInput = <<>>
    /\ mtfLog = [called |-> FALSE]
    /\ scoreInput = <<>>
    /\ scoreLog = [called |-> FALSE]
    /\ lossSignal = <<>>
    /\ lossAnalysis = [called |-> FALSE]
    /\ macroPc = [c \in Callers |-> "idle"]
    /\ memCache = "none"
    /\ fileCache \in {"none", "stale", "fresh"}
    /\ _refreshing = FALSE
    /\ bgTasks = [t \in Tasks |-> "none"]
    /\ macroLog = [called |-> FALSE]
    /\ loopPc = <<>>
    /\ scan_count = 0
    /\ last_summary_date = None
    /\ utcNow = <<>>
    /\ cycleLog = <<>>
    /\ emitted = <<>>
    /\ lists = EmptyDict
    /\ savePc = <<>>
    /\ assigned = <<>>
    /\ apiStore = <<>>
    /\ apiLog = [called |-> FALSE]
    /\ adapters = <<>>
    /\ routes = EmptyDict
    /\ routeLog = [called |-> FALSE]
    /\ candles = {}
    /\ ingestLog = [called |-> FALSE]
    /\ signals = <<>>
    /\ baseline = <<>>
    /\ scanInput = [called |-> FALSE]
    /\ scanLog = [called |-> FALSE]
    /\ sig = [status |-> "none"]
    /\ now = 0
    /\ lastCheck = [called |-> FALSE]
    /\ store = <<>>
    /\ idCounter = 0
    /\ dbBar = [low |-> 0, close |-> 0, high |-> 0]
    /\ scanPc = <<>>
    /\ scanBar = <<>>
    /\ scanOpen = <<>>
    /\ history = <<>>
    /\ patterns = <<>>

macroOthers ==
    <<engineVars, trackerVars, raceVars, lossVars, dataVars, saveVars, loopVars,
      catVars, scoreVars, mtfVars, fetchVars, pendVars>>

\* get_gold_macro_summary up to its return or its await: answered from memory,
\* answered from the file (with a refresh task created when the file is stale
\* and no refresh is flagged), or on to the blocking fetch
CallSummary(c) ==
    /\ macroPc[c] = "idle"
    /\ IF _is_cached(memCache)
       THEN /\ macroLog' = [called |-> TRUE, caller |-> c, from |-> "memory",
                            file |-> fileCache, waited |-> FALSE]
            /\ UNCHANGED <<macroPc, memCache, bgTasks>>
       ELSE IF FileData(fileCache)
       THEN /\ memCache' = "fresh"
            /\ macroLog' = [called |-> TRUE, caller |-> c, from |-> "file",
                            file |-> fileCache, waited |-> FALSE]
            /\ IF RefreshDue(fileCache, _refreshing)
               THEN \E t \in Tasks :
                        /\ bgTasks[t] = "none"
                        /\ bgTasks' = [bgTasks EXCEPT ![t] = "scheduled"]
               ELSE UNCHANGED bgTasks
            /\ UNCHANGED macroPc
       ELSE /\ macroPc' = [macroPc EXCEPT ![c] = "fetching"]
            /\ UNCHANGED <<memCache, bgTasks, macroLog>>
    /\ UNCHANGED <<fileCache, _refreshing, macroOthers>>

\* the caller's await self._fetch_fresh_summary() ends: the summary is cached,
\* saved and returned, or the exception goes to the caller
FetchReturns(c, outcome) ==
    /\ macroPc[c] = "fetching"
    /\ macroPc' = [macroPc EXCEPT ![c] = "idle"]
    /\ IF outcome = "ok"
       THEN /\ memCache' = "fresh"
            /\ fileCache' = "fresh"
            /\ macroLog' = [called |-> TRUE, caller |-> c, from |-> "fetch",
                            file |-> "none", waited |-> TRUE]
       ELSE UNCHANGED <<memCache, fileCache, macroLog>>
    /\ UNCHANGED <<_refreshing, bgTasks, macroOthers>>

\* a created task begins _background_refresh: it returns when a refresh is
\* flagged, else it sets the flag and awaits the fetch
TaskRuns(t) ==
    /\ bgTasks[t] = "scheduled"
    /\ IF _refreshing
       THEN /\ bgTasks' = [bgTasks EXCEPT ![t] = "none"]
            /\ UNCHANGED _refreshing
       ELSE /\ bgTasks' = [bgTasks EXCEPT ![t] = "fetching"]
            /\ _refreshing' = TRUE
    /\ UNCHANGED <<macroPc, memCache, fileCache, macroLog, macroOthers>>

\* the task's fetch ends: the summary is cached and saved, or the exception is
\* logged; the flag is cleared either way
TaskFetchReturns(t, outcome) ==
    /\ bgTasks[t] = "fetching"
    /\ bgTasks' = [bgTasks EXCEPT ![t] = "none"]
    /\ _refreshing' = FALSE
    /\ IF outcome = "ok"
       THEN memCache' = "fresh" /\ fileCache' = "fresh"
       ELSE UNCHANGED <<memCache, fileCache>>
    /\ UNCHANGED <<macroPc, macroLog, macroOthers>>

\* six hours pass since the in-memory entry was stamped
MemoryAges ==
    /\ memCache = "fresh"
    /\ memCache' = "expired"
    /\ UNCHANGED <<macroPc, fileCache, _refreshing, bgTasks, macroLog, macroOthers>>

\* six hours pass since the file was written
FileAges ==
    /\ fileCache = "fresh"
    /\ fileCache' = "stale"
    /\ UNCHANGED <<macroPc, memCache, _refreshing, bgTasks, macroLog, macroOthers>>

NextMacro ==
    \/ \E c \in Callers : CallSummary(c)
    \/ \E c \in Callers, outcome \in {"ok", "Exception"} : FetchReturns(c, outcome)
    \/ \E t \in Tasks : TaskRuns(t)
    \/ \E t \in Tasks, outcome \in {"ok", "Exception"} : TaskFetchReturns(t, outcome)
    \/ MemoryAges
    \/ FileAges

SpecMacro == InitMacro /\ [][NextMacro]_vars

\* C21: at most one _fetch_fresh_summary is in flight at a time, with a stale
\* file cache and with no cache at all, and a call made while the cache file
\* exists is answered without waiting for a fetch
RefreshesCoalesced ==
    /\ InFlight <= 1
    /\ (macroLog.called /\ macroLog.file # "none") => ~macroLog.waited


\* C22 as stated: a candle that reaches both the stop_loss and the take_profit
\* of an active signal closes it as a loss at stop_loss ("SL wins")
BothLevelsStopWins ==
    [][(sig.status = "active" /\ lastCheck'.called /\ now' = now
        /\ lastCheck'.hit.target /\ lastCheck'.hit.stop)
          => sig'.status = "loss" /\ sig'.exit_price = sig.stop_loss]_vars

\* C22, amended: a candle that reaches both the stop_loss and the take_profit
\* of an active signal closes it as a win at take_profit ("TP wins"), with
\* outcome_pnl |take_profit - entry_price|, in every evaluation of such a
\* signal and candle
BothLevelsTargetWins ==
    [][(sig.status = "active" /\ lastCheck'.called /\ now' = now
        /\ lastCheck'.hit.target /\ lastCheck'.hit.stop)
          => /\ sig'.status = "win"
             /\ sig'.exit_price = sig.take_profit
             /\ sig'.outcome_pnl = Abs(sig.take_profit - sig.entry_price)
             /\ "loss_category" \notin DOMAIN sig']_vars

\* an active signal was checked against a candle spanning both of its levels
\* and came out closed at its take_profit
WitnessBothLevelsReached ==
    /\ lastCheck.called
    /\ lastCheck.status = "active"
    /\ lastCheck.hit.target
    /\ lastCheck.hit.stop
    /\ sig.status = "win"
    /\ sig.exit_price = sig.take_profit
    /\ sig.max_adverse >= Abs(sig.entry_price - sig.stop_loss)


------------------------------------------------------------------------------
(* Specification of the loss categoriser: categorize_loss applied to closed    *)
(* losses drawn from the values its tests distinguish                          *)

\* a signal closed as a loss, entered at 100.0000 with a risk of 1.0000; RSI
\* in tenths, the volume ratio in hundredths, prices in 0.0001
LossSignal(direction, regime, compatible, rsi, confluence, volume, ma, mfe, mae, atr) ==
    [status |-> "loss", symbol |-> "XAUUSD", timeframe |-> "15m",
     direction |-> direction, regime_at_signal |-> regime,
     entry_price |-> 1000000,
     stop_loss |-> IF direction = "long" THEN 990000 ELSE 1010000,
     take_profit |-> IF direction = "long" THEN 1020000 ELSE 980000,
     max_favorable |-> mfe, max_adverse |-> mae,
     signal_reasons |-> [regime_compatible |-> compatible,
                         confluence_count |-> confluence],
     indicator_snapshot |->
         [rsi |-> [value |-> rsi],
          volume_spike |-> [value |-> volume, classification |-> "accumulation"],
          moving_averages |-> [classification |-> ma],
          atr |-> [value |-> atr]]]

LossSignals ==
    {LossSignal(direction, regime, compatible, rsi, confluence, volume, ma, mfe, mae, atr) :
        direction \in {"long", "short"},
        regime \in {"trending_up", "trending_down", "ranging"},
        compatible \in BOOLEAN,
        rsi \in {240, 500, 780},
        confluence \in {3, 5},
        volume \in {70, 150},
        ma \in {"downtrend", "strong_uptrend"},
        mfe \in {0, 3000, 3500},
        mae \in {10000, 50000},
        atr \in {0, 20000}}

InitCategorize ==
    /\ pendPc = "idle"
    /\ ohlcv_rows = <<>>
    /\ pendStore = <<>>
    /\ pendNow = 0
    /\ fetchInput = <<>>
    /\ fetchLog = [called |-> FALSE]
    /\ mtfInput = <<>>
    /\ mtfLog = [called |-> FALSE]
    /\ scoreInput = <<>>
    /\ scoreLog = [called |-> FALSE]
    /\ lossSignal \in LossSignals
    /\ lossAnalysis = [called |-> FALSE]
    /\ macroPc = <<>>
    /\ memCache = None
    /\ fileCache = None
    /\ _refreshing = FALSE
    /\ bgTasks = <<>>
    /\ macroLog = [called |-> FALSE]
    /\ loopPc = <<>>
    /\ scan_count = 0
    /\ last_summary_date = None
    /\ utcNow = <<>>
    /\ cycleLog = <<>>
    /\ emitted = <<>>
    /\ lists = EmptyDict
    /\ savePc = <<>>
    /\ assigned = <<>>
    /\ apiStore = <<>>
    /\ apiLog = [called |-> FALSE]
    /\ adapters = <<>>
    /\ routes = EmptyDict
    /\ routeLog = [called |-> FALSE]
    /\ candles = {}
    /\ ingestLog = [called |-> FALSE]
    /\ signals = <<>>
    /\ baseline = <<>>
    /\ scanInput = [called |-> FALSE]
    /\ scanLog = [called |-> FALSE]
    /\ sig = [status |-> "none"]
    /\ now = 0
    /\ lastCheck = [called |-> FALSE]
    /\ store = <<>>
    /\ idCounter = 0
    /\ dbBar = [low |-> 0, close |-> 0, high |-> 0]
    /\ scanPc = <<>>
    /\ scanBar = <<>>
    /\ scanOpen = <<>>
    /\ history = <<>>
    /\ patterns = <<>>

catOthers ==
    <<engineVars, trackerVars, raceVars, lossVars, dataVars, saveVars, loopVars,
      macroVars, scoreVars, mtfVars, fetchVars, pendVars>>

\* categorize_loss(signal) on the signal drawn
Categorize ==
    /\ ~lossAnalysis.called
    /\ lossAnalysis' = Merge(categorize_loss(lossSignal, 0), [called |-> TRUE])
    /\ UNCHANGED <<lossSignal, catOthers>>

NextCategorize == Categorize

SpecCategorize == InitCategorize /\ [][NextCategorize]_vars

\* the order in which categorize_loss is to test its categories
CategoryOrder ==
    <<"regime_mismatch", "overextended", "low_confluence", "weak_volume",
      "against_trend", "false_breakout", "news_event">>

CategoryRank(category) == CHOOSE i \in DOMAIN CategoryOrder : CategoryOrder[i] = category

\* the categories whose predicate holds for the signal
CategoriesHit(signal) ==
    {LossPredicates(signal)[i].category :
        i \in {j \in DOMAIN LossPredicates(signal) : LossPredicates(signal)[j].hit}}

\* the spec's example: a long entered at RSI 78 with 5 confirmations in an
\* uptrend, stopped out after running 0.35 x risk in its favour
ExampleLoss(signal) ==
    /\ signal.direction = "long"
    /\ signal.indicator_snapshot.rsi.value = 780
    /\ signal.signal_reasons.confluence_count = 5
    /\ signal.signal_reasons.regime_compatible
    /\ signal.regime_at_signal = "trending_up"
    /\ signal.max_favorable = 3500

\* C23: all_categories lists the categories whose predicate triggered, each
\* once, in the order regime_mismatch, overextended, low_confluence,
\* weak_volume, against_trend, false_breakout, news_event, and category is the
\* first of them; the long loss with entry RSI 78, confluence 5, regime
\* trending_up and MFE 0.35 x risk is overextended and also a false_breakout
CategoriesInFixedOrder ==
    (lossAnalysis.called /\ CategoriesHit(lossSignal) # {}) =>
        LET all == lossAnalysis.all_categories
        IN  /\ {all[i] : i \in DOMAIN all} = CategoriesHit(lossSignal)
            /\ Len(all) = Cardinality(CategoriesHit(lossSignal))
            /\ \A i, j \in DOMAIN all :
                   i < j => CategoryRank(all[i]) < CategoryRank(all[j])
            /\ lossAnalysis.category = all[1]
            /\ ExampleLoss(lossSignal) =>
                   /\ lossAnalysis.category = "overextended"
                   /\ \E i \in DOMAIN all : all[i] = "false_breakout"

\* the example loss was analysed: more than one predicate triggered
WitnessOverextendedFalseBreakout ==
    /\ lossAnalysis.called
    /\ ExampleLoss(lossSignal)
    /\ Len(lossAnalysis.all_categories) >= 2
    /\ lossAnalysis.category = "overextended"


------------------------------------------------------------------------------
(* Specification of the scoring loop of generate_signals (step 2): one         *)
(* indicator returns a result, the others return none                          *)

\* the latest result of one indicator: its name and its IndicatorResult
ScoredResults ==
    {[name |-> IndicatorOrder[i], result |-> Res(0, cls, div, cross)] :
        i \in DOMAIN IndicatorOrder,
        cls \in {"neutral", "bullish_momentum", "bearish_momentum"},
        div \in {"", "none", "bullish_divergence", "bearish_divergence"},
        cross \in {"", "bullish_crossover", "death_cross"}}

\* raw = registry.calculate_all(df) when only that indicator has results
RawOf(scored) ==
    [n \in {IndicatorOrder[i] : i \in DOMAIN IndicatorOrder} |->
        IF n = scored.name THEN scored.result ELSE Absent]

InitScore ==
    /\ pendPc = "idle"
    /\ ohlcv_rows = <<>>
    /\ pendStore = <<>>
    /\ pendNow = 0
    /\ fetchInput = <<>>
    /\ fetchLog = [called |-> FALSE]
    /\ mtfInput = <<>>
    /\ mtfLog = [called |-> FALSE]
    /\ scoreInput \in ScoredResults
    /\ scoreLog = [called |-> FALSE]
    /\ lossSignal = <<>>
    /\ lossAnalysis = [called |-> FALSE]
    /\ macroPc = <<>>
    /\ memCache = None
    /\ fileCache = None
    /\ _refreshing = FALSE
    /\ bgTasks = <<>>
    /\ macroLog = [called |-> FALSE]
    /\ loopPc = <<>>
    /\ scan_count = 0
    /\ last_summary_date = None
    /\ utcNow = <<>>
    /\ cycleLog = <<>>
    /\ emitted = <<>>
    /\ lists = EmptyDict
    /\ savePc = <<>>
    /\ assigned = <<>>
    /\ apiStore = <<>>
    /\ apiLog = [called |-> FALSE]
    /\ adapters = <<>>
    /\ routes = EmptyDict
    /\ routeLog = [called |-> FALSE]
    /\ candles = {}
    /\ ingestLog = [called |-> FALSE]
    /\ signals = <<>>
    /\ baseline = <<>>
    /\ scanInput = [called |-> FALSE]
    /\ scanLog = [called |-> FALSE]
    /\ sig = [status |-> "none"]
    /\ now = 0
    /\ lastCheck = [called |-> FALSE]
    /\ store = <<>>
    /\ idCounter = 0
    /\ dbBar = [low |-> 0, close |-> 0, high |-> 0]
    /\ scanPc = <<>>
    /\ scanBar = <<>>
    /\ scanOpen = <<>>
    /\ history = <<>>
    /\ patterns = <<>>

scoreOthers ==
    <<engineVars, trackerVars, raceVars, lossVars, dataVars, saveVars, loopVars,
      macroVars, catVars, mtfVars, fetchVars, pendVars>>

\* the scoring loop over raw.items()
Score ==
    /\ ~scoreLog.called
    /\ scoreLog' = Merge(ScoreIndicators(RawOf(scoreInput), Len(IndicatorOrder)),
                         [called |-> TRUE,
                          signal |-> _classify_signal(scoreInput.result.metadata)])
    /\ UNCHANGED <<scoreInput, scoreOthers>>

NextScore == Score

SpecScore == InitScore /\ [][NextScore]_vars

\* the metadata carries a divergence, a crossover
HasDivergence(meta) == meta.divergence \notin {"", "none"}
HasCrossover(meta) == meta.crossover # ""

\* C24: the weight an indicator adds to the sums is its catalog weight, times
\* 1.3 when its latest result carries a divergence and times 1.2 when it
\* carries a crossover, and exactly the catalog weight with neither (weights
\* in hundredths, so the factors are compared in ten-thousandths)
WeightBoostedByDivergenceAndCrossover ==
    scoreLog.called =>
        LET meta == scoreInput.result.metadata
            contributed == scoreLog.total_weight
            expected == SCALPER_WEIGHTS[scoreInput.name]
                        * (IF HasDivergence(meta) THEN 130 ELSE 100)
                        * (IF HasCrossover(meta) THEN 120 ELSE 100)
        IN  /\ 10000 * contributed = expected
            /\ scoreLog.signal = "bullish" => scoreLog.bullish_weight = contributed
            /\ scoreLog.signal = "bearish" => scoreLog.bearish_weight = contributed


------------------------------------------------------------------------------
(* Specification of scan_multi_timeframe: the frames of the scanned            *)
(* timeframes, each with the list generate_signals returns for it              *)
(* (confidence in millionths)                                                  *)

\* the keys of dataframes, in the order of the dict
MtfTimeframes == <<"5m", "15m", "30m">>

\* the signal generate_signals builds (step 14): its flags before confluence
TfSignal(timeframe, direction, confidence) ==
    [timeframe |-> timeframe, direction |-> direction, confidence |-> confidence,
     mtf_confluence |-> FALSE, agreeing_timeframes |-> <<timeframe>>]

\* the per-timeframe confidences: rounded to 0.001 (step 9) or halved by a loss
\* pattern after the rounding (step 11)
TfConfidences == {350500, 600000, 610000, 701000, 900000}

\* a frame: its length (0 for None) and what generate_signals returns for it
FramesOf(timeframe) ==
    {[len |-> 0, signals |-> <<>>],
     [len |-> 49, signals |-> <<TfSignal(timeframe, "long", 701000)>>],
     [len |-> 50, signals |-> <<>>]}
    \cup {[len |-> 50, signals |-> <<TfSignal(timeframe, d, c)>>] :
            d \in {"long", "short"}, c \in TfConfidences}

MtfInputs ==
    {f \in [{MtfTimeframes[i] : i \in DOMAIN MtfTimeframes} ->
                UNION {FramesOf(MtfTimeframes[i]) : i \in DOMAIN MtfTimeframes}] :
        \A i \in DOMAIN MtfTimeframes : f[MtfTimeframes[i]] \in FramesOf(MtfTimeframes[i])}

\* the confluence boost without the clamp
MutConfluenceBoost(confidence) == (confidence * 115) \div 100

\* min(sig["confidence"] * 1.15, 1.0)
ConfluenceBoost(confidence) == Min((confidence * 115) \div 100, 1000000)

\* round(x, 3): the nearest thousandth; the binary product of a decimal tie
\* lies just below or just above it, so a tie rounds either way
Round3(x, up) ==
    LET lo == (x \div 1000) * 1000
        rem == x % 1000
    IN  IF rem < 500 THEN lo
        ELSE IF rem > 500 THEN lo + 1000
        ELSE IF up THEN lo + 1000 ELSE lo

\* the first loop: frames of fewer than 50 rows are skipped
RECURSIVE ScannedSignals(_, _)
ScannedSignals(frames, n) ==
    IF n = 0 THEN <<>>
    ELSE LET tf == MtfTimeframes[n]
             df == frames[tf]
         IN  IF df.len < 50
             THEN ScannedSignals(frames, n - 1)
             ELSE ScannedSignals(frames, n - 1) \o df.signals

\* [tf for tf, d in directions_by_tf.items() if d == direction]
TfsOf(all_signals, direction) ==
    LET RECURSIVE Keep(_)
        Keep(i) ==
            IF i = 0 THEN <<>>
            ELSE IF all_signals[i].direction = direction
                 THEN Append(Keep(i - 1), all_signals[i].timeframe)
                 ELSE Keep(i - 1)
    IN  Keep(Len(all_signals))

\* the confluence pass over all_signals for one direction
Flagged(all_signals, direction, tfs, up) ==
    [i \in DOMAIN all_signals |->
        IF all_signals[i].direction = direction
        THEN [all_signals[i] EXCEPT
                !.mtf_confluence = TRUE,
                !.agreeing_timeframes = tfs,
                !.confidence = Round3(ConfluenceBoost(@), up[all_signals[i].timeframe])]
        ELSE all_signals[i]]

scan_multi_timeframe(dataframes, up) ==
    LET all_signals == ScannedSignals(dataframes, Len(MtfTimeframes))
        long_tfs == TfsOf(all_signals, "long")
        short_tfs == TfsOf(all_signals, "short")
        longs == IF Len(all_signals) > 1 /\ Len(long_tfs) >= 2
                 THEN Flagged(all_signals, "long", long_tfs, up)
                 ELSE all_signals
    IN  IF Len(all_signals) > 1 /\ Len(short_tfs) >= 2
        THEN Flagged(longs, "short", short_tfs, up)
        ELSE longs

InitMtf ==
    /\ pendPc = "idle"
    /\ ohlcv_rows = <<>>
    /\ pendStore = <<>>
    /\ pendNow = 0
    /\ fetchInput = <<>>
    /\ fetchLog = [called |-> FALSE]
    /\ mtfInput \in MtfInputs
    /\ mtfLog = [called |-> FALSE]
    /\ scoreInput = <<>>
    /\ scoreLog = [called |-> FALSE]
    /\ lossSignal = <<>>
    /\ lossAnalysis = [called |-> FALSE]
    /\ macroPc = <<>>
    /\ memCache = None
    /\ fileCache = None
    /\ _refreshing = FALSE
    /\ bgTasks = <<>>
    /\ macroLog = [called |-> FALSE]
    /\ loopPc = <<>>
    /\ scan_count = 0
    /\ last_summary_date = None
    /\ utcNow = <<>>
    /\ cycleLog = <<>>
    /\ emitted = <<>>
    /\ lists = EmptyDict
    /\ savePc = <<>>
    /\ assigned = <<>>
    /\ apiStore = <<>>
    /\ apiLog = [called |-> FALSE]
    /\ adapters = <<>>
    /\ routes = EmptyDict
    /\ routeLog = [called |-> FALSE]
    /\ candles = {}
    /\ ingestLog = [called |-> FALSE]
    /\ signals = <<>>
    /\ baseline = <<>>
    /\ scanInput = [called |-> FALSE]
    /\ scanLog = [called |-> FALSE]
    /\ sig = [status |-> "none"]
    /\ now = 0
    /\ lastCheck = [called |-> FALSE]
    /\ store = <<>>
    /\ idCounter = 0
    /\ dbBar = [low |-> 0, close |-> 0, high |-> 0]
    /\ scanPc = <<>>
    /\ scanBar = <<>>
    /\ scanOpen = <<>>
    /\ history = <<>>
    /\ patterns = <<>>

mtfOthers ==
    <<engineVars, trackerVars, raceVars, lossVars, dataVars, saveVars, loopVars,
      macroVars, catVars, scoreVars, fetchVars, pendVars>>

ScanMultiTimeframe ==
    /\ ~mtfLog.called
    /\ \E up \in [{MtfTimeframes[i] : i \in DOMAIN MtfTimeframes} -> BOOLEAN] :
           mtfLog' = [called |-> TRUE,
                      signals |-> scan_multi_timeframe(mtfInput, up)]
    /\ UNCHANGED <<mtfInput, mtfOthers>>

NextMtf == ScanMultiTimeframe

SpecMtf == InitMtf /\ [][NextMtf]_vars

\* the timeframes whose frame was scanned and produced a signal of the direction
ProducedTfs(direction) ==
    {tf \in DOMAIN mtfInput :
        /\ mtfInput[tf].len >= 50
        /\ mtfInput[tf].signals # <<>>
        /\ mtfInput[tf].signals[1].direction = direction}

\* the confidence generate_signals gave the signal of a timeframe
PerTfConfidence(tf) == mtfInput[tf].signals[1].confidence

SeqSet(seq) == {seq[i] : i \in DOMAIN seq}

\* the flags of every returned signal follow the agreement of its direction;
\* Conf(mtfSig, c) says how the confidence mtfSig carries relates to its
\* per-timeframe confidence c when at least two timeframes agree
ConfluenceFlags(Conf(_, _)) ==
    mtfLog.called =>
        \A i \in DOMAIN mtfLog.signals :
            LET mtfSig == mtfLog.signals[i]
                tfs == ProducedTfs(mtfSig.direction)
            IN  IF Cardinality(tfs) >= 2
                THEN /\ mtfSig.mtf_confluence
                     /\ SeqSet(mtfSig.agreeing_timeframes) = tfs
                     /\ Len(mtfSig.agreeing_timeframes) = Cardinality(tfs)
                     /\ Conf(mtfSig, PerTfConfidence(mtfSig.timeframe))
                ELSE /\ ~mtfSig.mtf_confluence
                     /\ mtfSig.agreeing_timeframes = <<mtfSig.timeframe>>
                     /\ mtfSig.confidence = PerTfConfidence(mtfSig.timeframe)

ExactBoost(mtfSig, c) == 100 * mtfSig.confidence = Min(115 * c, 100000000)

RoundedBoost(mtfSig, c) ==
    /\ mtfSig.confidence % 1000 = 0
    /\ 100 * mtfSig.confidence - Min(115 * c, 100000000) \in -50000..50000

\* C25 as stated: with two or more timeframes of one direction every signal of
\* that direction is flagged, lists exactly those timeframes and carries
\* exactly min(1.15 x its per-timeframe confidence, 1.0); a direction of one
\* timeframe keeps its flags and its confidence
ConfluenceBoostExact == ConfluenceFlags(ExactBoost)

\* C25 amended: the same, the boosted confidence being min(1.15 x the
\* per-timeframe confidence, 1.0) rounded to three decimals
ConfluenceBoostRounded == ConfluenceFlags(RoundedBoost)

\* two timeframes agree on long, one of them at 0.701, and the scan returned
WitnessTwoTimeframesAgree ==
    /\ mtfLog.called
    /\ Cardinality(ProducedTfs("long")) >= 2
    /\ \E i \in DOMAIN mtfLog.signals :
           /\ mtfLog.signals[i].direction = "long"
           /\ PerTfConfidence(mtfLog.signals[i].timeframe) = 701000
           /\ mtfLog.signals[i].confidence = 806000


------------------------------------------------------------------------------
(* Specification of one request for candles: _fetch_with_fallback, or          *)
(* ingest_ohlcv on an empty table, for XAUUSD under a registry and with        *)
(* sources that obey the adapter interface (rows oldest first, one per         *)
(* timestamp, at most limit of them)                                           *)

AlphaVantageAdapter == Adapter("alpha_vantage", "forex")

\* the registries: the adapters registered, in order, and the routes set
FetchRegistries ==
    {[adapters |-> <<>>, routes |-> EmptyDict],
     [adapters |-> <<MassiveAdapter>>, routes |-> EmptyDict],
     [adapters |-> <<GoldAPIAdapter, OandaAdapter, MassiveAdapter>>,
      routes |-> EmptyDict],
     [adapters |-> <<BinanceAdapter, OandaAdapter>>,
      routes |-> set_route(EmptyDict, XAUUSD, "binance")],
     [adapters |-> <<OandaAdapter>>,
      routes |-> set_route(EmptyDict, XAUUSD, "binance")]}

\* the requests: timeframe and limit
FetchCalls == {<<"5m", 2>>, <<"1d", 2>>, <<"1h", 60>>}

\* n candles from timestamp first on, all of value k
Rows(first, n, k) == [i \in 1..n |-> Candle5(first + i - 1, k)]

\* fewer rows than min(limit, 50); exactly that many; limit rows
Short(limit) == IF limit > 50 THEN 3 ELSE 1
Enough(limit) == Min(limit, 50)

\* the first timestamp and the value of the rows of each source; the free
\* sources serve daily candles only
FirstTimestamp ==
    [goldapi |-> 1, massive |-> 2, oanda |-> 3, binance |-> 1, stooq |-> 4, yahoo |-> 5]
ValueOf ==
    [goldapi |-> 10, massive |-> 20, oanda |-> 30, binance |-> 40, stooq |-> 50,
     yahoo |-> 60]

\* the value of the daily candles an adapter serves when asked for "1d", and
\* the values of all candles of daily granularity
DailyValues == {ValueOf.stooq, ValueOf.yahoo, 70}

RowsOf(src, n) == Frame(Rows(FirstTimestamp[src], n, ValueOf[src]))

\* what every source does when asked for the timeframe with the limit
FetchAnswers(limit) ==
    {[goldapi |-> g, massive |-> m, oanda |-> o, binance |-> b, stooq |-> st,
      yahoo |-> y] :
        g \in {Raises, RowsOf("goldapi", Short(limit)), RowsOf("goldapi", Enough(limit))},
        m \in {Raises, Frame(<<>>), RowsOf("massive", Short(limit)),
               RowsOf("massive", Enough(limit))},
        o \in {Frame(<<>>), RowsOf("oanda", Short(limit)), RowsOf("oanda", Enough(limit))},
        b \in {Frame(<<>>), RowsOf("binance", Short(limit))},
        st \in {Frame(<<>>), RowsOf("stooq", limit)},
        y \in {Frame(<<>>), RowsOf("yahoo", Short(limit))}}

\* what every source does when asked for "1d" in the retry
DailyAnswers(limit) ==
    LET Nothing == [src \in DOMAIN FirstTimestamp |-> Frame(<<>>)]
    IN  {Nothing,
         [Nothing EXCEPT !.stooq = RowsOf("stooq", limit)],
         [src \in DOMAIN FirstTimestamp |->
             Frame(Rows(FirstTimestamp[src], Enough(limit), 70))]}

FetchInputs ==
    {[adapters |-> reg.adapters, routes |-> reg.routes, symbol |-> XAUUSD,
      timeframe |-> call[1], limit |-> call[2], fetch |-> fetch] :
        reg \in FetchRegistries,
        call \in FetchCalls,
        fetch \in FetchAnswers(2) \cup FetchAnswers(60)}

InitFetch ==
    /\ pendPc = "idle"
    /\ ohlcv_rows = <<>>
    /\ pendStore = <<>>
    /\ pendNow = 0
    /\ fetchInput \in {in \in FetchInputs : in.fetch \in FetchAnswers(in.limit)}
    /\ fetchLog = [called |-> FALSE]
    /\ mtfInput = <<>>
    /\ mtfLog = [called |-> FALSE]
    /\ scoreInput = <<>>
    /\ scoreLog = [called |-> FALSE]
    /\ lossSignal = <<>>
    /\ lossAnalysis = [called |-> FALSE]
    /\ macroPc = <<>>
    /\ memCache = None
    /\ fileCache = None
    /\ _refreshing = FALSE
    /\ bgTasks = <<>>
    /\ macroLog = [called |-> FALSE]
    /\ loopPc = <<>>
    /\ scan_count = 0
    /\ last_summary_date = None
    /\ utcNow = <<>>
    /\ cycleLog = <<>>
    /\ emitted = <<>>
    /\ lists = EmptyDict
    /\ savePc = <<>>
    /\ assigned = <<>>
    /\ apiStore = <<>>
    /\ apiLog = [called |-> FALSE]
    /\ adapters = <<>>
    /\ routes = EmptyDict
    /\ routeLog = [called |-> FALSE]
    /\ candles = {}
    /\ ingestLog = [called |-> FALSE]
    /\ signals = <<>>
    /\ baseline = <<>>
    /\ scanInput = [called |-> FALSE]
    /\ scanLog = [called |-> FALSE]
    /\ sig = [status |-> "none"]
    /\ now = 0
    /\ lastCheck = [called |-> FALSE]
    /\ store = <<>>
    /\ idCounter = 0
    /\ dbBar = [low |-> 0, close |-> 0, high |-> 0]
    /\ scanPc = <<>>
    /\ scanBar = <<>>
    /\ scanOpen = <<>>
    /\ history = <<>>
    /\ patterns = <<>>

fetchOthers ==
    <<engineVars, trackerVars, raceVars, lossVars, dataVars, saveVars, loopVars,
      macroVars, catVars, scoreVars, mtfVars, pendVars>>

\* one call of _fetch_with_fallback
FetchWithFallback ==
    /\ ~fetchLog.called
    /\ fetchLog' =
           Merge(_fetch_with_fallback(fetchInput.adapters, fetchInput.routes,
                                      fetchInput.symbol, fetchInput.timeframe,
                                      fetchInput.limit, fetchInput.fetch),
                 [called |-> TRUE, op |-> "_fetch_with_fallback"])
    /\ UNCHANGED <<fetchInput, fetchOthers>>

\* one call of ingest_ohlcv on the empty table
IngestOhlcv ==
    /\ ~fetchLog.called
    /\ \E daily \in DailyAnswers(fetchInput.limit) :
       \E result \in {ingest_ohlcv({}, fetchInput.adapters, fetchInput.routes,
                                   fetchInput.symbol, fetchInput.timeframe,
                                   fetchInput.limit, fetchInput.fetch, daily)} :
           fetchLog' = Merge(result, [called |-> TRUE, op |-> "ingest_ohlcv"])
    /\ UNCHANGED <<fetchInput, fetchOthers>>

NextFetch ==
    \/ FetchWithFallback
    \/ IngestOhlcv

SpecFetch == InitFetch /\ [][NextFetch]_vars


------------------------------------------------------------------------------
(* Properties of _fetch_with_fallback *)

FetchReturned == fetchLog.called /\ fetchLog.op = "_fetch_with_fallback"

FetchMinRows == Min(fetchInput.limit, 50)

\* the adapter the symbol is routed to
FetchPrimary == route_symbol(fetchInput.adapters, fetchInput.routes, fetchInput.symbol)

\* the rows a source hands over when it is called
AnswerRows(src) ==
    IF fetchInput.fetch[src].raises THEN <<>> ELSE fetchInput.fetch[src].df

\* the rows merged once the first n sources called have answered
RECURSIVE MergedAfter(_, _)
MergedAfter(calls, n) ==
    IF n = 0 THEN <<>>
    ELSE _merge_dataframes(<<MergedAfter(calls, n - 1), AnswerRows(calls[n])>>,
                           fetchInput.limit)

\* the place of a name in the configured fallback chain (0 when it has none)
ChainIndex(name) ==
    IF \E i \in DOMAIN fallback_adapters : fallback_adapters[i] = name
    THEN CHOOSE i \in DOMAIN fallback_adapters : fallback_adapters[i] = name
    ELSE 0

Registered(name) == get_adapter(fetchInput.adapters, name).raised = None

\* C26: the primary adapter is called first and, when it returns at least
\* min(limit, 50) rows, nothing else is called; otherwise the fallback adapters
\* are tried one at a time in their configured order, the primary is never
\* called a second time, unregistered fallbacks are skipped, and no source is
\* called once the merged row count has reached min(limit, 50)
FallbackOrderKept ==
    FetchReturned =>
        LET calls == fetchLog.calls
            routed == FetchPrimary.raised = None
            primary == FetchPrimary.value.name
            \* the calls after that of the primary
            later == IF routed THEN 2..Len(calls) ELSE 1..Len(calls)
        IN  /\ routed => calls # <<>> /\ calls[1] = primary
            /\ routed /\ Len(AnswerRows(primary)) >= FetchMinRows
                   => calls = <<primary>>
            /\ \A i \in later : ~routed \/ calls[i] # primary
            /\ \A i \in later, j \in later : i < j => calls[i] # calls[j]
            /\ \A i \in later :
                   ChainIndex(calls[i]) > 0 => Registered(calls[i])
            /\ \A i \in later, j \in later :
                   i < j /\ ChainIndex(calls[j]) > 0
                       => /\ ChainIndex(calls[i]) > 0
                          /\ ChainIndex(calls[i]) < ChainIndex(calls[j])
            /\ \A n \in 1..(Len(calls) - 1) :
                   Len(MergedAfter(calls, n)) < FetchMinRows
            /\ \A i \in DOMAIN fallback_adapters :
                   LET fb_name == fallback_adapters[i]
                       tried == \E c \in DOMAIN calls : calls[c] = fb_name
                   IN  Registered(fb_name) /\ ~tried /\ ~(routed /\ fb_name = primary)
                           => /\ Len(fetchLog.df) >= FetchMinRows
                              /\ \A c \in later :
                                     /\ ChainIndex(calls[c]) > 0
                                     /\ ChainIndex(calls[c]) < i

\* the primary came back short, the first fallback filled the series, and the
\* registered fallback after it, which had rows too, was not called
WitnessChainStoppedEarly ==
    /\ FetchReturned
    /\ fetchLog.calls = <<"goldapi", "massive">>
    /\ AnswerRows("goldapi") # <<>>
    /\ Registered("oanda")
    /\ AnswerRows("oanda") # <<>>

\* the timestamps of a frame
Timestamps(df) == {df[i].timestamp : i \in DOMAIN df}

\* the sources called that handed over a row of the timestamp
SourcesOf(calls, timestamp) ==
    {c \in DOMAIN calls : timestamp \in Timestamps(AnswerRows(calls[c]))}

\* C28: the series returned has at most limit rows, strictly increasing
\* timestamps, and for a timestamp several sources served the row of the source
\* merged last, also when a single source served rows
MergedSeriesCanonical ==
    FetchReturned =>
        LET df == fetchLog.df
            calls == fetchLog.calls
        IN  /\ Len(df) <= fetchInput.limit
            /\ \A i \in DOMAIN df, j \in DOMAIN df :
                   i < j => df[i].timestamp < df[j].timestamp
            /\ \A i \in DOMAIN df :
                   LET from == SourcesOf(calls, df[i].timestamp)
                   IN  /\ from # {}
                       /\ \E last \in from :
                              /\ \A c \in from : c <= last
                              /\ \E r \in DOMAIN AnswerRows(calls[last]) :
                                     AnswerRows(calls[last])[r] = df[i]

\* two sources served rows of one timestamp, the merged series carries the
\* later one's row and was trimmed to limit
WitnessMergedAndTrimmed ==
    /\ FetchReturned
    /\ Len(fetchLog.df) = fetchInput.limit
    /\ \E a \in DOMAIN fetchLog.calls, b \in DOMAIN fetchLog.calls :
           /\ a < b
           /\ \E i \in DOMAIN fetchLog.df :
                  /\ fetchLog.df[i].timestamp \in Timestamps(AnswerRows(fetchLog.calls[a]))
                  /\ fetchLog.df[i].timestamp \in Timestamps(AnswerRows(fetchLog.calls[b]))
           /\ Timestamps(AnswerRows(fetchLog.calls[a])) \ Timestamps(fetchLog.df) # {}

\* one source alone served rows, fewer than min(limit, 50)
WitnessSingleFrame ==
    /\ FetchReturned
    /\ fetchLog.df # <<>>
    /\ Cardinality({c \in DOMAIN fetchLog.calls : AnswerRows(fetchLog.calls[c]) # <<>>}) = 1

------------------------------------------------------------------------------
(* Properties of ingest_ohlcv *)

IngestReturned == fetchLog.called /\ fetchLog.op = "ingest_ohlcv"

\* C27: when the first fetch of a request for another timeframe than 1d comes
\* back empty or shorter than min(limit, 50), ingest_ohlcv fetches exactly once
\* more, with 1d, and what it stores it stores under 1d; a request for 1d is
\* fetched once
RetryWhenChainExhausted ==
    IngestReturned =>
        LET attempts == fetchLog.attempts
        IN  /\ attempts[1].timeframe = fetchInput.timeframe
            /\ IF fetchInput.timeframe # "1d" /\ attempts[1].rows < FetchMinRows
               THEN /\ Len(attempts) = 2
                    /\ attempts[2].timeframe = "1d"
                    /\ fetchLog.stored_as \in {"1d", None}
                    /\ \A row \in fetchLog.table : row.timeframe = "1d"
               ELSE Len(attempts) = 1

\* the same with the retry made only after an empty first fetch
RetryWhenEmpty ==
    IngestReturned =>
        LET attempts == fetchLog.attempts
        IN  /\ attempts[1].timeframe = fetchInput.timeframe
            /\ IF fetchInput.timeframe # "1d" /\ attempts[1].rows = 0
               THEN /\ Len(attempts) = 2
                    /\ attempts[2].timeframe = "1d"
                    /\ fetchLog.stored_as \in {"1d", None}
                    /\ \A row \in fetchLog.table : row.timeframe = "1d"
               ELSE Len(attempts) = 1

\* C30: no candle of daily granularity (a row of Stooq, of Yahoo, or of the
\* retry with 1d) is stored under another timeframe than 1d
DailyRowsStoredAsDaily ==
    IngestReturned =>
        \A row \in fetchLog.table : row.open \in DailyValues => row.timeframe = "1d"


------------------------------------------------------------------------------
(* Specification of the repeated scans of one symbol (tasks/scalper_scan.py,   *)
(* _async_scan): every scan ingests candles, loads the frames of the           *)
(* timeframes holding at least 50 candles, saves the signals of the frames     *)
(* and checks the open signals of the store; candles of a timeframe can be     *)
(* deleted in between (api/v1/prices.py, cleanup_stale_data)                   *)

MaxPending == 1   \* signals saved to the list of the symbol

ROWS_NEEDED == 50

\* the timeframes scanned for the symbol, in the order of TF_MAP
TF_MAP == <<"5m", "1d">>
ScanTimeframes == {TF_MAP[i] : i \in DOMAIN TF_MAP}

\* the rows one call of ingest_ohlcv adds to a timeframe
NewRows == {0, 49, 50}

\* the prices of a long signal, in units of 0.0001
PendingSignal(id, timeframe, clock) ==
    [id |-> id, symbol |-> "XAUUSD", timeframe |-> timeframe, direction |-> "long",
     status |-> "pending", entry_price |-> 20000000, stop_loss |-> 19900000,
     take_profit |-> 20200000, generated_at |-> clock,
     expires_at |-> clock + expiry_map(timeframe)]

\* the last candle of a frame: away from the entry, or touching it
LastBars ==
    {[low |-> 20100000, close |-> 20150000, high |-> 20180000],
     [low |-> 19950000, close |-> 20000000, high |-> 20100000]}

\* step 2: the timeframes whose frame is loaded
Dataframes(rows) == {tf \in DOMAIN rows : rows[tf] >= ROWS_NEEDED}

\* step 6, the loop body for one signal; bars gives the last candle of each frame
CheckedSignal(signal, dataframes, bars, clock) ==
    IF signal.status \notin {"active", "pending"} THEN signal
    ELSE IF Get(signal, "timeframe", "1d") \notin dataframes THEN signal
    ELSE Let(bars[Get(signal, "timeframe", "1d")],
             LAMBDA bar :
                 Let(check_signal_outcome(signal, bar.close, bar.high, bar.low, clock),
                     LAMBDA result :
                         IF result.none THEN signal
                         ELSE ApplyUpdate(signal, result.update, clock)))

InitPending ==
    /\ pendPc = "idle"
    /\ ohlcv_rows = [tf \in ScanTimeframes |-> 0]
    /\ pendStore = <<>>
    /\ pendNow = 0
    /\ fetchInput = <<>>
    /\ fetchLog = [called |-> FALSE]
    /\ mtfInput = <<>>
    /\ mtfLog = [called |-> FALSE]
    /\ scoreInput = <<>>
    /\ scoreLog = [called |-> FALSE]
    /\ lossSignal = <<>>
    /\ lossAnalysis = [called |-> FALSE]
    /\ macroPc = <<>>
    /\ memCache = None
    /\ fileCache = None
    /\ _refreshing = FALSE
    /\ bgTasks = <<>>
    /\ macroLog = [called |-> FALSE]
    /\ loopPc = <<>>
    /\ scan_count = 0
    /\ last_summary_date = None
    /\ utcNow = <<>>
    /\ cycleLog = <<>>
    /\ emitted = <<>>
    /\ lists = EmptyDict
    /\ savePc = <<>>
    /\ assigned = <<>>
    /\ apiStore = <<>>
    /\ apiLog = [called |-> FALSE]
    /\ adapters = <<>>
    /\ routes = EmptyDict
    /\ routeLog = [called |-> FALSE]
    /\ candles = {}
    /\ ingestLog = [called |-> FALSE]
    /\ signals = <<>>
    /\ baseline = <<>>
    /\ scanInput = [called |-> FALSE]
    /\ scanLog = [called |-> FALSE]
    /\ sig = [status |-> "none"]
    /\ now = 0
    /\ lastCheck = [called |-> FALSE]
    /\ store = <<>>
    /\ idCounter = 0
    /\ dbBar = [low |-> 0, close |-> 0, high |-> 0]
    /\ scanPc = <<>>
    /\ scanBar = <<>>
    /\ scanOpen = <<>>
    /\ history = <<>>
    /\ patterns = <<>>

pendOthers ==
    <<engineVars, trackerVars, raceVars, lossVars, dataVars, saveVars, loopVars,
      macroVars, catVars, scoreVars, mtfVars, fetchVars>>

\* step 1: ingest_ohlcv for every scan timeframe
ScanIngest ==
    /\ pendPc = "idle"
    /\ pendPc' = "ingested"
    /\ \E added \in [ScanTimeframes -> NewRows] :
           ohlcv_rows' = [tf \in ScanTimeframes |->
                             Min(ohlcv_rows[tf] + added[tf], ROWS_NEEDED)]
    /\ UNCHANGED <<pendStore, pendNow, pendOthers>>

\* steps 2 to 6: load the frames, return when there is none, save the signals
\* scan_multi_timeframe returns, check the open signals
ScanCheck ==
    /\ pendPc = "ingested"
    /\ pendPc' = "idle"
    /\ IF Dataframes(ohlcv_rows) = {}
       THEN UNCHANGED pendStore
       ELSE \E emitted_tfs \in SUBSET Dataframes(ohlcv_rows),
               bars \in [Dataframes(ohlcv_rows) -> LastBars] :
            /\ Len(pendStore) + Cardinality(emitted_tfs) <= MaxPending
            /\ \E saved \in {SelectSeq(TF_MAP, LAMBDA tf : tf \in emitted_tfs)} :
                   pendStore' =
                       [i \in 1..(Len(pendStore) + Len(saved)) |->
                           CheckedSignal(
                               IF i <= Len(pendStore) THEN pendStore[i]
                               ELSE PendingSignal(i, saved[i - Len(pendStore)], pendNow),
                               Dataframes(ohlcv_rows), bars, pendNow)]
    /\ UNCHANGED <<ohlcv_rows, pendNow, pendOthers>>

\* DELETE /{symbol}/cleanup: the candles of one timeframe are deleted
CleanupStaleData(timeframe) ==
    /\ ohlcv_rows[timeframe] > 0
    /\ ohlcv_rows' = [ohlcv_rows EXCEPT ![timeframe] = 0]
    /\ UNCHANGED <<pendPc, pendStore, pendNow, pendOthers>>

\* time passes, up to the minute after the expiry of a stored signal
TickPending ==
    /\ \E i \in DOMAIN pendStore :
           /\ pendStore[i].expires_at + 1 > pendNow
           /\ pendNow' = pendStore[i].expires_at + 1
    /\ UNCHANGED <<pendPc, ohlcv_rows, pendStore, pendOthers>>

NextPending ==
    \/ ScanIngest
    \/ ScanCheck
    \/ \E timeframe \in ScanTimeframes : CleanupStaleData(timeframe)
    \/ TickPending

\* the scheduler starts a scan of the symbol every 300 s and the clock advances
SpecPending ==
    /\ InitPending
    /\ [][NextPending]_vars
    /\ WF_vars(ScanIngest)
    /\ WF_vars(ScanCheck)
    /\ WF_vars(TickPending)

\* the same with no candle ever deleted
SpecPendingKept ==
    /\ InitPending
    /\ [][ScanIngest \/ ScanCheck \/ TickPending]_vars
    /\ WF_vars(ScanIngest)
    /\ WF_vars(ScanCheck)
    /\ WF_vars(TickPending)

\* the i-th signal of the list is pending and its expires_at has passed
PendingPastExpiry(i) ==
    /\ i <= Len(pendStore)
    /\ pendStore[i].status = "pending"
    /\ pendNow > pendStore[i].expires_at

\* the i-th signal of the list has left the pending state
LeftPending(i) == i <= Len(pendStore) /\ pendStore[i].status # "pending"

\* C29: under repeated scans every stored pending signal past its expires_at
\* eventually leaves the pending state, whatever its timeframe and however
\* many candles are stored for that timeframe
PendingEventuallyLeaves ==
    \A i \in 1..MaxPending : PendingPastExpiry(i) ~> LeftPending(i)

====
